---- MODULE Spec2Model ----
(***************************************************************************)
(* Model of the remote-file synchronisation of mcp-json-query:             *)
(* S3SyncService (src/src/services/s3-sync.ts) and the bootstrap that      *)
(* calls it (src/src/index.ts).                                            *)
(*                                                                         *)
(* Strings are sequences of one-character strings, so that the string and  *)
(* path functions of the code are computed character by character.         *)
(***************************************************************************)
EXTENDS Integers, Sequences, FiniteSets, TLC

\* ------------------------------------------------------------------ bounds
\* longest object key (in characters) of the key universe
MaxKeyLen == 4
\* number of chunks of the remote object's body
NumChunks == 2
\* timestamps are 1..MaxTime; the local clock reads MaxTime - 1
MaxTime == 3
\* successive calls the caller makes with the same arguments
MaxCalls == 2
\* characters of a locator after its scheme
MaxUriLen == 5
\* matches a query finds in a document
MaxMatches == 3

\* ----------------------------------------------------------------- strings
SL == "/"
DOT == "."

\* x.slice(from) of JavaScript, from counted from 0
SliceFrom(s, from) == SubSeq(s, from + 1, Len(s))

\* x.slice(0, to) of JavaScript
SliceTo(s, to) == SubSeq(s, 1, to)

\* x.startsWith(p)
StartsWith(s, p) == Len(s) >= Len(p) /\ SubSeq(s, 1, Len(p)) = p

\* x.indexOf(c), counted from 0, -1 when absent
LastIndexOf(s, c) ==
  IF \E i \in 1..Len(s) : s[i] = c
  THEN (CHOOSE i \in 1..Len(s) : s[i] = c /\ \A j \in (i + 1)..Len(s) : s[j] # c) - 1
  ELSE -1

IndexOf(s, c) ==
  IF \E i \in 1..Len(s) : s[i] = c
  THEN (CHOOSE i \in 1..Len(s) : s[i] = c /\ \A j \in 1..(i - 1) : s[j] # c) - 1
  ELSE -1

\* x.split('/'): the pieces between the separators (empty pieces kept)
RECURSIVE SplitSlash(_)
SplitSlash(s) ==
  LET i == IndexOf(s, SL) IN
  IF i = -1 THEN <<s>>
  ELSE <<SliceTo(s, i)>> \o SplitSlash(SliceFrom(s, i + 1))

\* x.replace(/\.\./g, ''): leftmost non-overlapping matches removed
RECURSIVE RemoveDotDot(_)
RemoveDotDot(s) ==
  IF Len(s) = 0 THEN s
  ELSE IF Len(s) >= 2 /\ s[1] = DOT /\ s[2] = DOT THEN RemoveDotDot(SliceFrom(s, 2))
  ELSE <<s[1]>> \o RemoveDotDot(SliceFrom(s, 1))

\* x.replace(/^\/+/, '')
RECURSIVE StripLeadingSlashes(_)
StripLeadingSlashes(s) ==
  IF Len(s) > 0 /\ s[1] = SL THEN StripLeadingSlashes(SliceFrom(s, 1)) ELSE s

\* segments joined with '/'
RECURSIVE JoinSegs(_)
JoinSegs(segs) ==
  IF Len(segs) = 0 THEN <<>>
  ELSE IF Len(segs) = 1 THEN segs[1]
  ELSE segs[1] \o <<SL>> \o JoinSegs(Tail(segs))

\* ------------------------------------------------------------- node:path
\* normalizeString of node:path (posix): '.' and empty segments dropped, '..'
\* pops the last segment; above the start it is kept only if allowAboveRoot
RECURSIVE NormSegs(_, _, _)
NormSegs(todo, acc, allowAboveRoot) ==
  IF Len(todo) = 0 THEN acc
  ELSE LET seg == todo[1]
           rest == Tail(todo)
       IN IF seg = <<>> \/ seg = <<DOT>> THEN NormSegs(rest, acc, allowAboveRoot)
          ELSE IF seg = <<DOT, DOT>>
               THEN IF Len(acc) > 0 /\ acc[Len(acc)] # <<DOT, DOT>>
                    THEN NormSegs(rest, SubSeq(acc, 1, Len(acc) - 1), allowAboveRoot)
                    ELSE IF allowAboveRoot
                         THEN NormSegs(rest, Append(acc, seg), allowAboveRoot)
                         ELSE NormSegs(rest, acc, allowAboveRoot)
               ELSE NormSegs(rest, Append(acc, seg), allowAboveRoot)

IsAbsolute(p) == Len(p) > 0 /\ p[1] = SL

\* path.normalize
Normalize(p) ==
  IF Len(p) = 0 THEN <<DOT>>
  ELSE LET abs == IsAbsolute(p)
           trailing == p[Len(p)] = SL
           body == JoinSegs(NormSegs(SplitSlash(p), <<>>, ~abs))
       IN IF Len(body) = 0
          THEN (IF abs THEN <<SL>> ELSE IF trailing THEN <<DOT, SL>> ELSE <<DOT>>)
          ELSE (IF abs THEN <<SL>> ELSE <<>>) \o body \o (IF trailing THEN <<SL>> ELSE <<>>)

\* path.join(a, b)
Join(a, b) ==
  IF Len(a) = 0 /\ Len(b) = 0 THEN <<DOT>>
  ELSE IF Len(a) = 0 THEN Normalize(b)
  ELSE IF Len(b) = 0 THEN Normalize(a)
  ELSE Normalize(a \o <<SL>> \o b)

\* process.cwd()
Cwd == <<SL>>

\* the segments of path.resolve(p)
AbsSegs(p) ==
  IF IsAbsolute(p) THEN NormSegs(SplitSlash(p), <<>>, FALSE)
  ELSE NormSegs(SplitSlash(Cwd \o <<SL>> \o p), <<>>, FALSE)

\* path.resolve(p): absolute, normalized, no trailing separator
Resolve(p) == <<SL>> \o JoinSegs(AbsSegs(p))

\* s without its trailing separators
RECURSIVE StripTrailingSlashes(_)
StripTrailingSlashes(s) ==
  IF Len(s) > 0 /\ s[Len(s)] = SL THEN StripTrailingSlashes(SliceTo(s, Len(s) - 1)) ELSE s

\* path.basename(p): the text after the last separator, trailing separators ignored
Basename(p) ==
  LET t == StripTrailingSlashes(p)
      parts == SplitSlash(t)
  IN parts[Len(parts)]

\* path.dirname(p): the scan of node:path from the end of the string
Dirname(p) ==
  IF Len(p) = 0 THEN <<DOT>>
  ELSE LET nons == {k \in 2..Len(p) : p[k] # SL}
           lastNon == IF nons = {} THEN 0 ELSE CHOOSE k \in nons : \A j \in nons : j <= k
           ends == {k \in 2..Len(p) : p[k] = SL /\ k < lastNon}
       IN IF ends = {} THEN (IF IsAbsolute(p) THEN <<SL>> ELSE <<DOT>>)
          ELSE LET e == CHOOSE k \in ends : \A j \in ends : j <= k
               IN IF IsAbsolute(p) /\ e = 2 THEN <<SL, SL>> ELSE SliceTo(p, e - 1)

\* ------------------------------------------------------------ the service
\* the scheme prefix 's3://'
S3Prefix == <<"s", "3", ":", SL, SL>>

\* S3SyncService.isS3Uri
isS3Uri(uri) == StartsWith(uri, S3Prefix)

\* an error: the prefixes the catch blocks put before the message, then its kind
Err(kind) == [ok |-> FALSE, msg |-> <<kind>>]

\* catch (error) { throw new Error(`<prefix>: ${err.message}`) }
Wrap(prefix, e) == [ok |-> FALSE, msg |-> <<prefix>> \o e.msg]

\* the kind of an error: the innermost message
KindOf(e) == e.msg[Len(e.msg)]

SyncPrefix == "S3 sync failed"
DownloadPrefix == "Failed to download from S3"

\* S3SyncService.parseS3Uri
parseS3UriNoEmptyCheck(s3Uri) ==
  IF ~StartsWith(s3Uri, S3Prefix) THEN Err("MalformedLocator")
  ELSE LET withoutProtocol == SliceFrom(s3Uri, 5)
           slashIndex == IndexOf(withoutProtocol, SL)
       IN IF slashIndex = -1 THEN Err("MalformedLocator")
          ELSE [ok |-> TRUE, bucket |-> SliceTo(withoutProtocol, slashIndex),
                key |-> SliceFrom(withoutProtocol, slashIndex + 1)]

parseS3Uri(s3Uri) ==
  IF ~StartsWith(s3Uri, S3Prefix) THEN Err("MalformedLocator")
  ELSE LET withoutProtocol == SliceFrom(s3Uri, 5)
           slashIndex == IndexOf(withoutProtocol, SL)
       IN IF slashIndex = -1 THEN Err("MalformedLocator")
          ELSE LET bucket == SliceTo(withoutProtocol, slashIndex)
                   key == SliceFrom(withoutProtocol, slashIndex + 1)
               IN IF Len(bucket) = 0 \/ Len(key) = 0 THEN Err("MalformedLocator")
                  ELSE [ok |-> TRUE, bucket |-> bucket, key |-> key]

\* the sanitization of generateLocalPath: '..' removed, then leading separators
SanitizeKeyLeadingOnly(s3Key) == StripLeadingSlashes(s3Key)

SanitizeKey(s3Key) == StripLeadingSlashes(RemoveDotDot(s3Key))

\* S3SyncService.generateLocalPath
generateLocalPath(rootPath, s3Key, preserveDirectoryStructure) ==
  IF preserveDirectoryStructure
  THEN [ok |-> TRUE, path |-> Resolve(Join(rootPath, SanitizeKey(s3Key)))]
  ELSE LET filename == Basename(s3Key)
       IN IF Len(filename) = 0 THEN Err("EmptyFilename")
          ELSE [ok |-> TRUE, path |-> Join(rootPath, filename)]

\* the security check of syncToRoot: TRUE when the path is accepted
PathAlwaysAccepted(localPath, rootPath) == TRUE

PathWithinRoot(localPath, rootPath) ==
  LET resolvedLocalPath == Resolve(localPath)
      resolvedRootPath == Resolve(rootPath)
  IN ~(~StartsWith(resolvedLocalPath, resolvedRootPath \o <<SL>>)
       /\ resolvedLocalPath # resolvedRootPath)

\* file information: lastModified is <<>> when undefined, else <<t>>
NoInfo == [exists |-> FALSE, lastModified |-> <<>>, etag |-> <<>>, size |-> <<>>]

\* S3SyncService.isS3FileNewer
isS3FileNewerOrEqual(s3Info, localInfo) ==
  IF ~localInfo.exists THEN TRUE
  ELSE IF ~s3Info.exists \/ s3Info.lastModified = <<>> \/ localInfo.lastModified = <<>>
       THEN FALSE
       ELSE s3Info.lastModified[1] >= localInfo.lastModified[1]

isS3FileNewerTimestampFirst(s3Info, localInfo) ==
  IF ~s3Info.exists \/ s3Info.lastModified = <<>> THEN FALSE
  ELSE IF ~localInfo.exists THEN TRUE
  ELSE IF localInfo.lastModified = <<>> THEN FALSE
  ELSE s3Info.lastModified[1] > localInfo.lastModified[1]

isS3FileNewerWhenUnknown(s3Info, localInfo) ==
  IF ~localInfo.exists THEN TRUE
  ELSE IF ~s3Info.exists THEN FALSE
  ELSE IF s3Info.lastModified = <<>> \/ localInfo.lastModified = <<>> THEN TRUE
  ELSE s3Info.lastModified[1] > localInfo.lastModified[1]

isS3FileNewerReversed(s3Info, localInfo) ==
  IF ~localInfo.exists THEN TRUE
  ELSE IF ~s3Info.exists \/ s3Info.lastModified = <<>> \/ localInfo.lastModified = <<>>
       THEN FALSE
       ELSE s3Info.lastModified[1] < localInfo.lastModified[1]

isS3FileNewerOrSizeDiffers(s3Info, localInfo) ==
  IF ~localInfo.exists THEN TRUE
  ELSE IF s3Info.exists /\ s3Info.size # localInfo.size THEN TRUE
  ELSE IF ~s3Info.exists \/ s3Info.lastModified = <<>> \/ localInfo.lastModified = <<>>
       THEN FALSE
       ELSE s3Info.lastModified[1] > localInfo.lastModified[1]

isS3FileNewer(s3Info, localInfo) ==
  IF ~localInfo.exists THEN TRUE
  ELSE IF ~s3Info.exists \/ s3Info.lastModified = <<>> \/ localInfo.lastModified = <<>>
       THEN FALSE
       ELSE s3Info.lastModified[1] > localInfo.lastModified[1]

\* the local clock: the time a file written now gets
Now == MaxTime - 1

\* --------------------------------------------------------- the file system
\* A file system maps the segments of an absolute path to an entry; the
\* parent of every entry is a directory and <<>> is the directory '/'.
DirEntry(t) == [kind |-> "dir", data |-> <<>>, mtime |-> t]
FileEntry(d, t) == [kind |-> "file", data |-> d, mtime |-> t]

Parent(segs) == SubSeq(segs, 1, Len(segs) - 1)

Prefixes(segs) == {SubSeq(segs, 1, i) : i \in 0..Len(segs)}

\* the error of a path lookup, or "ok"
LookupCode(f, segs) ==
  IF \E q \in Prefixes(segs) : q # segs /\ q \in DOMAIN f /\ f[q].kind = "file"
  THEN "ENOTDIR"
  ELSE IF segs \notin DOMAIN f THEN "ENOENT"
  ELSE "ok"

\* f with entry e at segs, the parent's modification time updated
PutEntry(f, segs, e) ==
  [q \in DOMAIN f \cup {segs} |->
     IF q = segs THEN e
     ELSE IF q = Parent(segs) /\ segs \notin DOMAIN f THEN DirEntry(Now)
     ELSE f[q]]

\* f without the entry at segs
RemoveEntry(f, segs) ==
  [q \in DOMAIN f \ {segs} |-> IF q = Parent(segs) THEN DirEntry(Now) ELSE f[q]]

\* open(path, O_WRONLY | O_CREAT | O_TRUNC): the error, or "ok"
OpenCode(f, segs) ==
  IF Len(segs) = 0 THEN "EISDIR"
  ELSE IF LookupCode(f, Parent(segs)) # "ok" THEN LookupCode(f, Parent(segs))
  ELSE IF f[Parent(segs)].kind # "dir" THEN "ENOTDIR"
  ELSE IF segs \in DOMAIN f /\ f[segs].kind = "dir" THEN "EISDIR"
  ELSE "ok"

\* unlink(path): the error, or "ok"
UnlinkCode(f, segs) ==
  IF LookupCode(f, segs) # "ok" THEN LookupCode(f, segs)
  ELSE IF f[segs].kind = "dir" THEN "EISDIR"
  ELSE "ok"

\* mkdir(path, {recursive: true}): the error, or "ok"
MkdirCode(f, segs) ==
  IF \E q \in Prefixes(segs) : q \in DOMAIN f /\ f[q].kind = "file"
  THEN (IF segs \in DOMAIN f THEN "EEXIST" ELSE "ENOTDIR")
  ELSE "ok"

\* the directories mkdir(path, {recursive: true}) creates
MkdirCreates(f, segs) == {q \in Prefixes(segs) : q \notin DOMAIN f}

\* f after a successful mkdir(path, {recursive: true})
MkdirAll(f, segs) ==
  [q \in DOMAIN f \cup Prefixes(segs) |->
     IF q \in DOMAIN f
     THEN (IF \E c \in MkdirCreates(f, segs) : Parent(c) = q THEN DirEntry(Now) ELSE f[q])
     ELSE DirEntry(Now)]

\* ------------------------------------------------------------------ state
VARIABLES
  args,       \* the call: entry point, locator, root or path, options, initial files
  remote,     \* the object in the store: its metadata (constant during a run)
  fs,         \* the local file system
  fs0,        \* the file system when the current call of syncFile started
  pc,         \* where the current call of the service is
  localPath,  \* the path syncFile works on
  s3Res,      \* getS3FileInfo: idle, pending, done (info) or failed
  headResp,   \* the response to the HeadObject request of the current call
  localRes,   \* getLocalFileInfo: idle, pending, done (info) or failed
  dl,         \* the streams of downloadFromS3
  net,        \* remote requests issued by the current call
  fsMut,      \* paths the current call created, wrote or deleted (or tried to)
  probe,      \* validateRootDirectory of the current call: results of the probe's
              \* writeFile and unlink
  peer,       \* validateRootDirectory of a second, concurrent syncToRoot call on the
              \* same root: its position and the results of its probe
  results,    \* the results of the calls that have settled, in order
  bootPc,     \* where OrcaMCPServer.run is
  exitCode,   \* the process's exit code, once exited
  reply       \* what the json_query handler gave the protocol layer for the
              \* latest request (empty before the first request)

vars == <<args, remote, fs, fs0, pc, localPath, s3Res, headResp, localRes, dl, net, fsMut,
          probe, peer, results, bootPc, exitCode, reply>>

\* results of a call: the value returned (localPath and filename are those of a
\* SyncOutcome), or the message of the error thrown
Ok(v) == [ok |-> TRUE, value |-> v, msg |-> <<>>, localPath |-> <<>>, filename |-> <<>>]
Fail(e) == [ok |-> FALSE, value |-> FALSE, msg |-> e.msg, localPath |-> <<>>, filename |-> <<>>]

\* lookups
Idle == [st |-> "idle", info |-> NoInfo, msg |-> <<>>]
Pending == [st |-> "pending", info |-> NoInfo, msg |-> <<>>]
Done(i) == [st |-> "done", info |-> i, msg |-> <<>>]
Failed(e) == [st |-> "failed", info |-> NoInfo, msg |-> e.msg]

\* responses to a HeadObject request: the metadata, or an error with its name
\* and the HTTP status code of its $metadata (0 when there is none)
NoResponse == [kind |-> "none", name |-> "", status |-> 0]
Response(kind, name, status) == [kind |-> kind, name |-> name, status |-> status]

\* the streams before a download
NoDownload ==
  [rd |-> 0, ended |-> FALSE, errored |-> FALSE, closed |-> FALSE, ws |-> "none",
   linked |-> FALSE, written |-> 0, unlinks |-> 0]

\* the probe of validateRootDirectory before it ran: nothing written, nothing removed
NoProbe == [write |-> "none", unlink |-> "none"]

\* the concurrent call: absent, or about to stat the root
PeerOff == [pc |-> "off", write |-> "none", unlink |-> "none", error |-> "none"]
PeerStart == [PeerOff EXCEPT !.pc = "validate"]

\* the body of the remote object, chunk by chunk
Body == [i \in 1..NumChunks |-> i]
OldData == <<0>>

\* ----------------------------------------------------------------- inputs
RootR == <<SL, "r">>
PathRA == <<SL, "r", SL, "a">>
PathRAA == <<SL, "r", SL, "a", SL, "a">>
PathW == <<SL, "w">>
PathWDA == <<SL, "w", SL, "d", SL, "a">>
PathSlash == <<SL>>

\* the probe file of validateRootDirectory
ProbeName == <<DOT, "m", "c", "p", "-", "w", "r", "i", "t", "e", "-", "t", "e", "s", "t">>

PathRN == <<SL, "r", SL, "n">>

\* the text of a JSON document that is null: one chunk, none of the others
NullData == <<NumChunks + 1>>

\* the default of the max-results option
DefaultMaxResults == 100

\* initial file systems: "A" holds the file /r/a, "B" does not, "C" holds /r/a
\* and the file /r/n, whose content is the JSON text null, "D" holds /r/a and
\* a file of the user that has the name of the probe
InitFs(conf) ==
  IF conf = "A"
  THEN (<<>> :> DirEntry(1)) @@ (<<<<"r">>>> :> DirEntry(1))
       @@ (<<<<"r">>, <<"a">>>> :> FileEntry(OldData, Now))
  ELSE IF conf = "C"
  THEN (<<>> :> DirEntry(1)) @@ (<<<<"r">>>> :> DirEntry(1))
       @@ (<<<<"r">>, <<"a">>>> :> FileEntry(OldData, Now))
       @@ (<<<<"r">>, <<"n">>>> :> FileEntry(NullData, Now))
  ELSE IF conf = "D"
  THEN (<<>> :> DirEntry(1)) @@ (<<<<"r">>>> :> DirEntry(1))
       @@ (<<<<"r">>, <<"a">>>> :> FileEntry(OldData, Now))
       @@ (<<<<"r">>, ProbeName>> :> FileEntry(OldData, Now))
  ELSE (<<>> :> DirEntry(1)) @@ (<<<<"r">>>> :> DirEntry(1))

\* locators the bootstrap and the callers pass
Locators ==
  { S3Prefix \o <<"b", SL, "a">>,
    S3Prefix \o <<"b", SL, "d", SL, "a">>,
    S3Prefix \o <<"b", SL, DOT, DOT, SL, "a">>,
    S3Prefix \o <<"b", SL, DOT, DOT>>,
    S3Prefix \o <<"b", SL, "a", SL>>,
    S3Prefix \o <<"b", SL, SL>>,
    S3Prefix \o <<"b", SL, DOT>>,
    S3Prefix \o <<"b">>,
    S3Prefix \o <<SL, "a">>,
    S3Prefix \o <<"b", SL>>,
    <<"b", SL, "a">> }

\* every string of 1..n characters over the alphabet
RECURSIVE StringsUpTo(_, _)
StringsUpTo(alphabet, n) ==
  IF n = 0 THEN {<<>>}
  ELSE LET shorter == StringsUpTo(alphabet, n - 1)
       IN shorter \cup {Append(t, c) : t \in shorter, c \in alphabet}

KeyAlphabet == {"a", DOT, SL}
Keys == StringsUpTo(KeyAlphabet, MaxKeyLen) \ {<<>>}
KeyLocators == {S3Prefix \o <<"b", SL>> \o k : k \in Keys}

Remotes ==
  {NoInfo}
  \cup {[exists |-> TRUE, lastModified |-> lm, etag |-> <<"e">>, size |-> <<NumChunks>>] :
          lm \in {<<>>} \cup {<<t>> : t \in 1..MaxTime}}

NewestRemote ==
  [exists |-> TRUE, lastModified |-> <<MaxTime>>, etag |-> <<"e">>, size |-> <<NumChunks>>]

Roots == {RootR, PathRA, PathW, PathSlash, PathRAA}
FilePaths == {PathRA, PathWDA, PathRAA, RootR}

ArgsOver(uris, roots, paths, confs) ==
  {[entry |-> "syncToRoot", uri |-> u, path |-> r, preserve |-> p, fsConf |-> c,
     concurrent |-> FALSE, maxResults |-> DefaultMaxResults, argv |-> <<>>] :
     u \in uris, r \in roots, p \in BOOLEAN, c \in confs}
  \cup {[entry |-> "syncFile", uri |-> u, path |-> q, preserve |-> FALSE, fsConf |-> c,
          concurrent |-> FALSE, maxResults |-> DefaultMaxResults, argv |-> <<>>] :
     u \in uris, q \in paths, c \in confs}
  \cup {[entry |-> "run", uri |-> u, path |-> r, preserve |-> FALSE, fsConf |-> c,
          concurrent |-> FALSE, maxResults |-> DefaultMaxResults, argv |-> <<>>] :
     u \in uris \cup {<<>>}, r \in roots, c \in confs}

\* the state after construction; boot is where the process of the server starts
InitFrom(argSet, remotes, boot) ==
  /\ args \in argSet
  /\ remote \in remotes
  /\ fs = InitFs(args.fsConf)
  /\ fs0 = fs
  /\ pc = "start"
  /\ localPath = <<>>
  /\ s3Res = Idle
  /\ headResp = NoResponse
  /\ localRes = Idle
  /\ dl = NoDownload
  /\ net = [head |-> 0, get |-> 0]
  /\ fsMut = {}
  /\ probe = NoProbe
  /\ peer = IF args.concurrent THEN PeerStart ELSE PeerOff
  /\ results = <<>>
  /\ bootPc = IF args.entry = "run" THEN boot ELSE "off"
  /\ exitCode = 0
  /\ reply = <<>>

InitOver(argSet, remotes) == InitFrom(argSet, remotes, "run")

Init == InitOver(ArgsOver(Locators, Roots, FilePaths, {"A", "B"}), Remotes)

\* ---------------------------------------------------------------- actions
\* the catch blocks of the service
downloadCatch(e) == Wrap(DownloadPrefix, e)
syncFileCatch(e) == Wrap(SyncPrefix, e)
syncToRootCatchBare(e) == e

syncToRootCatch(e) == Wrap(SyncPrefix, e)

\* what syncToRoot makes of the result r of its syncFile call
syncToRootResult(r) ==
  IF r.ok
  THEN [ok |-> TRUE, value |-> r.value, msg |-> <<>>, localPath |-> localPath,
        filename |-> Basename(localPath)]
  ELSE Fail(syncToRootCatch(r))

\* syncFromS3 of the bootstrap after its syncFile call settled with r: the error
\* is caught and logged, run goes on to connect the transport
syncFromS3Rethrows(r) ==
  IF r.ok THEN [pc |-> "connect", code |-> 0] ELSE [pc |-> "exited", code |-> 1]

syncFromS3Settled(r) == [pc |-> "connect", code |-> 0]

\* the call of syncFile settles with r (returned value, or error as thrown by
\* syncFile); the continuations of the callers run in the same turn
Settle(r) ==
  /\ pc' = "returned"
  /\ results' = Append(results, IF args.entry = "syncToRoot" THEN syncToRootResult(r) ELSE r)
  /\ bootPc' = IF args.entry = "run" THEN syncFromS3Settled(r).pc ELSE bootPc
  /\ exitCode' = IF args.entry = "run" THEN syncFromS3Settled(r).code ELSE exitCode

\* an error thrown inside the try block of syncFile
SyncFileThrows(e) == Settle(Fail(syncFileCatch(e)))

Alive == bootPc # "exited"

\* a caller invokes syncToRoot or syncFile; a further call with the same
\* arguments follows a call that returned, up to MaxCalls calls
Call ==
  /\ args.entry \in {"syncToRoot", "syncFile"}
  /\ \/ pc = "start"
     \/ /\ pc = "returned"
        /\ Len(results) < MaxCalls
        /\ results[Len(results)].ok
  /\ pc' = IF args.entry = "syncToRoot" THEN "validate" ELSE "parse"
  /\ localPath' = IF args.entry = "syncToRoot" THEN <<>> ELSE args.path
  /\ s3Res' = Idle
  /\ localRes' = Idle
  /\ dl' = NoDownload
  /\ net' = [head |-> 0, get |-> 0]
  /\ fsMut' = {}
  /\ probe' = NoProbe
  /\ headResp' = NoResponse
  /\ UNCHANGED <<args, remote, reply, peer, fs, fs0, results, bootPc, exitCode>>

\* the condition of run for the startup sync: a locator is given (undefined and
\* the empty string are both <<>>) and it is an S3 URI
ShouldSyncAlways(fileUri) == TRUE

ShouldSync(fileUri) == fileUri # <<>> /\ isS3Uri(fileUri)

\* OrcaMCPServer.run up to the sync: syncFromS3 computes the local path from the
\* last '/'-separated piece of the locator and calls syncFile
Run ==
  /\ bootPc = "run"
  /\ IF ShouldSync(args.uri)
     THEN LET s3UriParts == SplitSlash(args.uri)
              filename == s3UriParts[Len(s3UriParts)]
          IN /\ localPath' = Join(args.path, filename)
             /\ pc' = "parse"
             /\ bootPc' = "syncing"
     ELSE /\ bootPc' = "connect"
          /\ UNCHANGED <<localPath, pc>>
  /\ UNCHANGED <<args, remote, reply, headResp, probe, peer, fs, fs0, s3Res, localRes, dl, net, fsMut, results, exitCode>>

\* server.connect(transport)
Connect ==
  /\ bootPc = "connect"
  /\ bootPc' = "serving"
  /\ UNCHANGED <<args, remote, reply, headResp, probe, peer, fs, fs0, pc, localPath, s3Res, localRes, dl, net, fsMut,
                 results, exitCode>>

\* the SIGINT handler: server.close() and process.exit(0)
Sigint ==
  /\ bootPc = "serving"
  /\ bootPc' = "exited"
  /\ exitCode' = 0
  /\ UNCHANGED <<args, remote, reply, headResp, probe, peer, fs, fs0, pc, localPath, s3Res, localRes, dl, net, fsMut,
                 results>>

\* validateRootDirectory, the stat of the root: "ok" for a directory, else the
\* error it throws (ENOENT becomes RootNotFound, other stat errors are rethrown)
RootStatRaw(f, rootPath) ==
  LET code == LookupCode(f, AbsSegs(rootPath))
  IN IF code # "ok" THEN code
     ELSE IF f[AbsSegs(rootPath)].kind # "dir" THEN "RootNotADirectory"
     ELSE "ok"

RootStatAnyKind(f, rootPath) ==
  LET code == LookupCode(f, AbsSegs(rootPath))
  IN IF code = "ENOENT" THEN "RootNotFound"
     ELSE IF code # "ok" THEN code
     ELSE "ok"

RootStat(f, rootPath) ==
  LET code == LookupCode(f, AbsSegs(rootPath))
  IN IF code = "ENOENT" THEN "RootNotFound"
     ELSE IF code # "ok" THEN code
     ELSE IF f[AbsSegs(rootPath)].kind # "dir" THEN "RootNotADirectory"
     ELSE "ok"

\* the probe file of the root
TestFile(rootPath) == AbsSegs(Join(rootPath, ProbeName))

\* the inner catch of validateRootDirectory: whatever made the probe's write
\* or unlink fail, the error thrown is RootNotWritable
ProbeFailureRaw(code) == code

ProbeFailure(code) == "RootNotWritable"

\* the results fs.writeFile(testFile, 'test') can have: that of the open, or
\* a refusal by the file system
ProbeWriteCodes(f, rootPath) == {OpenCode(f, TestFile(rootPath)), "EACCES"}

\* the results fs.unlink(testFile) can have
ProbeUnlinkCodes(f, rootPath) == {UnlinkCode(f, TestFile(rootPath)), "EACCES"}

\* the file system after the probe was written
ProbeWritten(f, rootPath) == PutEntry(f, TestFile(rootPath), FileEntry(<<"test">>, Now))

\* syncToRoot throws e before it called syncFile
SyncToRootThrows(e) ==
  /\ pc' = "returned"
  /\ results' = Append(results, Fail(syncToRootCatch(e)))

\* syncToRoot, first step, validateRootDirectory(rootPath): the stat of the
\* root completes; for a directory the write of the probe is issued
RootStatDoneUnvalidated ==
  /\ pc = "validate"
  /\ pc' = "locate"
  /\ UNCHANGED <<args, remote, reply, headResp, probe, peer, fs, fs0, localPath, s3Res, localRes, dl, net,
                 fsMut, results, bootPc, exitCode>>

RootStatDone ==
  /\ pc = "validate"
  /\ LET code == RootStat(fs, args.path)
     IN IF code # "ok"
        THEN /\ SyncToRootThrows(Err(code))
             /\ UNCHANGED fsMut
        ELSE /\ pc' = "probeWrite"
             /\ fsMut' = fsMut \cup {TestFile(args.path)}
             /\ UNCHANGED results
  /\ UNCHANGED <<args, remote, reply, headResp, probe, peer, fs, fs0, localPath, s3Res, localRes, dl, net,
                 bootPc, exitCode>>

\* validateRootDirectory: fs.writeFile(testFile, 'test') completes; on success
\* the unlink of the probe is issued
ProbeWriteDone ==
  /\ pc = "probeWrite"
  /\ \E code \in ProbeWriteCodes(fs, args.path) :
       /\ probe' = [probe EXCEPT !.write = code]
       /\ IF code = "ok"
          THEN /\ fs' = ProbeWritten(fs, args.path)
               /\ pc' = "probeUnlink"
               /\ UNCHANGED results
          ELSE /\ SyncToRootThrows(Err(ProbeFailure(code)))
               /\ UNCHANGED fs
  /\ UNCHANGED <<args, remote, reply, headResp, peer, fs0, localPath, s3Res, localRes, dl, net, fsMut,
                 bootPc, exitCode>>

\* validateRootDirectory: fs.unlink(testFile) completes; on success the root
\* is validated and syncToRoot goes on
ProbeUnlinkDone ==
  /\ pc = "probeUnlink"
  /\ \E code \in ProbeUnlinkCodes(fs, args.path) :
       /\ probe' = [probe EXCEPT !.unlink = code]
       /\ IF code = "ok"
          THEN /\ fs' = RemoveEntry(fs, TestFile(args.path))
               /\ pc' = "locate"
               /\ UNCHANGED results
          ELSE /\ SyncToRootThrows(Err(ProbeFailure(code)))
               /\ UNCHANGED fs
  /\ UNCHANGED <<args, remote, reply, headResp, peer, fs0, localPath, s3Res, localRes, dl, net, fsMut,
                 bootPc, exitCode>>

\* the same three steps of validateRootDirectory in the concurrent call
PeerStatDone ==
  /\ peer.pc = "validate"
  /\ LET code == RootStat(fs, args.path)
     IN peer' = IF code # "ok" THEN [peer EXCEPT !.pc = "failed", !.error = code]
                ELSE [peer EXCEPT !.pc = "probeWrite"]
  /\ UNCHANGED <<args, remote, reply, headResp, probe, fs, fs0, pc, localPath, s3Res, localRes, dl, net,
                 fsMut, results, bootPc, exitCode>>

PeerWriteDone ==
  /\ peer.pc = "probeWrite"
  /\ \E code \in ProbeWriteCodes(fs, args.path) :
       IF code = "ok"
       THEN /\ fs' = ProbeWritten(fs, args.path)
            /\ peer' = [peer EXCEPT !.pc = "probeUnlink", !.write = code]
       ELSE /\ fs' = fs
            /\ peer' = [peer EXCEPT !.pc = "failed", !.write = code,
                                    !.error = ProbeFailure(code)]
  /\ UNCHANGED <<args, remote, reply, headResp, probe, fs0, pc, localPath, s3Res, localRes, dl, net,
                 fsMut, results, bootPc, exitCode>>

PeerUnlinkDone ==
  /\ peer.pc = "probeUnlink"
  /\ \E code \in ProbeUnlinkCodes(fs, args.path) :
       IF code = "ok"
       THEN /\ fs' = RemoveEntry(fs, TestFile(args.path))
            /\ peer' = [peer EXCEPT !.pc = "validated", !.unlink = code]
       ELSE /\ fs' = fs
            /\ peer' = [peer EXCEPT !.pc = "failed", !.unlink = code,
                                    !.error = ProbeFailure(code)]
  /\ UNCHANGED <<args, remote, reply, headResp, probe, fs0, pc, localPath, s3Res, localRes, dl, net,
                 fsMut, results, bootPc, exitCode>>

\* syncToRoot, next steps: parseS3Uri, generateLocalPath, the containment check,
\* then the call of syncFile
LocatePath ==
  /\ pc = "locate"
  /\ LET parsed == parseS3Uri(args.uri)
         gen == generateLocalPath(args.path, parsed.key, args.preserve)
         fail(e) ==
           /\ pc' = "returned"
           /\ results' = Append(results, Fail(syncToRootCatch(e)))
           /\ UNCHANGED localPath
     IN IF ~parsed.ok THEN fail(parsed)
        ELSE IF ~gen.ok THEN fail(gen)
        ELSE IF ~PathWithinRoot(gen.path, args.path) THEN fail(Err("PathEscapesRoot"))
        ELSE /\ pc' = "parse"
             /\ localPath' = gen.path
             /\ UNCHANGED results
  /\ UNCHANGED <<args, remote, reply, headResp, probe, peer, fs, fs0, s3Res, localRes, dl, net, fsMut, bootPc, exitCode>>

\* the requests counted: this.s3Client.send(command) sends its request once
HeadSent(n) == [n EXCEPT !.head = @ + 1]

GetSentTwice(n) == [n EXCEPT !.get = @ + 2]

GetSent(n) == [n EXCEPT !.get = @ + 1]

\* syncFile up to its first await: parseS3Uri, then getS3FileInfo and
\* getLocalFileInfo are both started (the HEAD request and the stat are issued)
SyncFileStart ==
  /\ pc = "parse"
  /\ Alive
  /\ fs0' = fs
  /\ LET parsed == parseS3Uri(args.uri)
     IN IF ~parsed.ok
        THEN /\ SyncFileThrows(parsed)
             /\ UNCHANGED <<s3Res, localRes, net>>
        ELSE /\ pc' = "lookups"
             /\ s3Res' = Pending
             /\ localRes' = Pending
             /\ net' = HeadSent(net)
             /\ UNCHANGED <<results, bootPc, exitCode>>
  /\ UNCHANGED <<args, remote, reply, headResp, probe, peer, fs, localPath, dl, fsMut>>

\* Promise.all over the two lookups: rejected by the first failure, fulfilled
\* when both are done
AfterLookupFirstWins(s3, loc) ==
  IF s3.st = "failed" THEN SyncFileThrows(s3)
  ELSE IF loc.st = "failed" THEN SyncFileThrows(loc)
  ELSE /\ pc' = IF s3.st = "done" \/ loc.st = "done" THEN "decide" ELSE "lookups"
       /\ UNCHANGED <<results, bootPc, exitCode>>

AfterLookup(s3, loc) ==
  IF s3.st = "failed" THEN SyncFileThrows(s3)
  ELSE IF loc.st = "failed" THEN SyncFileThrows(loc)
  ELSE /\ pc' = IF s3.st = "done" /\ loc.st = "done" THEN "decide" ELSE "lookups"
       /\ UNCHANGED <<results, bootPc, exitCode>>

\* the responses the store can give to the HeadObject request for an object
\* with metadata meta
HeadResponses(meta) ==
  IF meta.exists
  THEN {Response("ok", "", 200), Response("error", "AccessDenied", 403),
        Response("error", "TimeoutError", 0)}
  ELSE {Response("error", "NotFound", 404), Response("error", "NotFound", 0),
        Response("error", "UnknownError", 404), Response("error", "AccessDenied", 403),
        Response("error", "TimeoutError", 0)}

\* S3SyncService.getS3FileInfo on a response: the metadata, {exists: false} for
\* an error named NotFound or of status 404, any other error rethrown
getS3FileInfoByNameOnly(response, meta) ==
  IF response.kind = "ok" THEN Done(meta)
  ELSE IF response.name = "NotFound" THEN Done(NoInfo)
  ELSE Failed(Err("TransportError"))

getS3FileInfo(response, meta) ==
  IF response.kind = "ok" THEN Done(meta)
  ELSE IF response.name = "NotFound" \/ response.status = 404 THEN Done(NoInfo)
  ELSE Failed(Err("TransportError"))

\* getS3FileInfo completes
HeadDone ==
  /\ pc = "lookups"
  /\ Alive
  /\ s3Res.st = "pending"
  /\ \E response \in HeadResponses(remote) :
       /\ headResp' = response
       /\ s3Res' = getS3FileInfo(response, remote)
       /\ AfterLookup(s3Res', localRes)
  /\ UNCHANGED <<args, remote, reply, probe, peer, fs, fs0, localPath, localRes, dl, net, fsMut>>

\* the file information fs.stat gives for an entry
StatInfo(e) ==
  [exists |-> TRUE, lastModified |-> <<e.mtime>>, etag |-> <<>>, size |-> <<Len(e.data)>>]

\* the results fs.stat(filePath) can have: that of the path lookup, or a
\* refusal by the file system
StatCodes(f, path) == {LookupCode(f, AbsSegs(path)), "EACCES"}

\* S3SyncService.getLocalFileInfo, fs.stat having given code: the metadata,
\* {exists: false} for ENOENT, or the error of any other failure
getLocalFileInfoAllMissing(f, path, code) ==
  IF code = "ok" THEN Done(StatInfo(f[AbsSegs(path)])) ELSE Done(NoInfo)

getLocalFileInfo(f, path, code) ==
  IF code = "ok" THEN Done(StatInfo(f[AbsSegs(path)]))
  ELSE IF code = "ENOENT" THEN Done(NoInfo)
  ELSE Failed(Err(code))

\* getLocalFileInfo completes
StatDone ==
  /\ pc = "lookups"
  /\ Alive
  /\ localRes.st = "pending"
  /\ \E code \in StatCodes(fs, localPath) :
       /\ localRes' = getLocalFileInfo(fs, localPath, code)
       /\ AfterLookup(s3Res, localRes')
  /\ UNCHANGED <<args, remote, reply, headResp, probe, peer, fs, fs0, localPath, s3Res, dl, net,
                 fsMut>>

\* the existence check of syncFile
RemoteAbsentNever(s3Info) == FALSE

RemoteAbsent(s3Info) == ~s3Info.exists

\* syncFile after the lookups: the existence check, the freshness decision, and
\* the start of downloadFromS3 (which runs up to its await of fs.mkdir)
Decide ==
  /\ pc = "decide"
  /\ Alive
  /\ IF RemoteAbsent(s3Res.info) THEN SyncFileThrows(Err("RemoteObjectNotFound"))
     ELSE IF ~isS3FileNewer(s3Res.info, localRes.info) THEN Settle(Ok(FALSE))
     ELSE /\ pc' = "mkdir"
          /\ UNCHANGED <<results, bootPc, exitCode>>
  /\ UNCHANGED <<args, remote, reply, headResp, probe, peer, fs, fs0, localPath, s3Res, localRes, dl, net, fsMut>>

\* downloadFromS3: fs.mkdir(dirname(localPath), {recursive: true}) completes; on
\* success the GET request is issued
MkdirDoneNotAwaited ==
  /\ pc = "mkdir"
  /\ Alive
  /\ net' = GetSent(net)
  /\ pc' = "get"
  /\ UNCHANGED <<args, remote, reply, headResp, probe, peer, fs, fs0, localPath, s3Res, localRes, dl,
                 fsMut, results, bootPc, exitCode>>

MkdirDone ==
  /\ pc = "mkdir"
  /\ Alive
  /\ LET dir == AbsSegs(Dirname(localPath))
     IN \E code \in {MkdirCode(fs, dir), "EACCES"} :
          IF code # "ok"
          THEN /\ SyncFileThrows(downloadCatch(Err(code)))
               /\ UNCHANGED <<fs, fsMut, net>>
          ELSE /\ fs' = MkdirAll(fs, dir)
               /\ fsMut' = fsMut \cup MkdirCreates(fs, dir)
               /\ net' = GetSent(net)
               /\ pc' = "get"
               /\ UNCHANGED <<results, bootPc, exitCode>>
  /\ UNCHANGED <<args, remote, reply, headResp, probe, peer, fs0, localPath, s3Res, localRes, dl>>

\* downloadFromS3: the GET request completes with a body, without one, or with
\* an error; with a body the write stream is created (its open is issued), the
\* handlers are registered and the body is piped into it
GetDone ==
  /\ pc = "get"
  /\ Alive
  /\ \E outcome \in {"body", "nobody", "error"} :
       IF outcome = "error"
       THEN /\ SyncFileThrows(downloadCatch(Err("TransportError")))
            /\ UNCHANGED <<dl, fsMut>>
       ELSE IF outcome = "nobody"
       THEN /\ SyncFileThrows(downloadCatch(Err("NoBody")))
            /\ UNCHANGED <<dl, fsMut>>
       ELSE /\ pc' = "stream"
            /\ dl' = [NoDownload EXCEPT !.ws = "opening"]
            /\ fsMut' = fsMut \cup {AbsSegs(localPath)}
            /\ UNCHANGED <<results, bootPc, exitCode>>
  /\ UNCHANGED <<args, remote, reply, headResp, probe, peer, fs, fs0, localPath, s3Res, localRes, net>>

\* the 'error' handlers of the two streams: fs.unlink(localPath) is issued and
\* not awaited, then reject(error); the rejection reaches syncFile's catch
\* block directly (downloadFromS3 returns the promise without awaiting it)
OnStreamError(d, e) ==
  /\ dl' = [d EXCEPT !.unlinks = @ + 1]
  /\ IF pc = "stream" THEN SyncFileThrows(e)
     ELSE UNCHANGED <<pc, results, bootPc, exitCode>>

\* the open of createWriteStream(localPath) completes: the file is created or
\* truncated, or the write stream emits 'error'
OpenDone ==
  /\ dl.ws = "opening"
  /\ Alive
  /\ LET p == AbsSegs(localPath)
     IN \E code \in {OpenCode(fs, p), "EACCES"} :
          IF code = "ok"
          THEN /\ fs' = PutEntry(fs, p, FileEntry(<<>>, Now))
               /\ dl' = [dl EXCEPT !.ws = "open", !.linked = TRUE]
               /\ UNCHANGED <<pc, results, bootPc, exitCode>>
          ELSE /\ OnStreamError([dl EXCEPT !.ws = "failed"], Err(code))
               /\ UNCHANGED fs
  /\ UNCHANGED <<args, remote, reply, headResp, probe, peer, fs0, localPath, s3Res, localRes, net, fsMut>>

\* the body stream emits 'data': the chunk is handed to the write stream, which
\* buffers it until it is written
Data ==
  /\ dl.ws \in {"opening", "open"}
  /\ Alive
  /\ ~dl.errored /\ ~dl.closed
  /\ dl.rd < NumChunks
  /\ dl' = [dl EXCEPT !.rd = @ + 1]
  /\ UNCHANGED <<args, remote, reply, headResp, probe, peer, fs, fs0, pc, localPath, s3Res, localRes, net, fsMut,
                 results, bootPc, exitCode>>

\* the write stream writes its next buffered chunk to the open file (which is
\* the file at localPath unless that was unlinked meanwhile), or the write
\* fails and the write stream emits 'error'
Flush ==
  /\ dl.ws = "open"
  /\ Alive
  /\ dl.written < dl.rd
  /\ LET p == AbsSegs(localPath)
     IN \E written \in BOOLEAN :
          IF written
          THEN /\ dl' = [dl EXCEPT !.written = @ + 1]
               /\ fs' = IF dl.linked
                        THEN [fs EXCEPT ![p] =
                                FileEntry(Append(@.data, Body[dl.written + 1]), Now)]
                        ELSE fs
               /\ UNCHANGED <<pc, results, bootPc, exitCode>>
          ELSE /\ OnStreamError([dl EXCEPT !.ws = "failed"], Err("WriteError"))
               /\ UNCHANGED fs
  /\ UNCHANGED <<args, remote, reply, headResp, probe, peer, fs0, localPath, s3Res, localRes, net, fsMut>>

\* the body stream emits 'end': pipe ends the write stream
End ==
  /\ dl.ws \in {"opening", "open"}
  /\ Alive
  /\ ~dl.errored /\ ~dl.ended /\ ~dl.closed
  /\ dl.rd = NumChunks
  /\ dl' = [dl EXCEPT !.ended = TRUE]
  /\ UNCHANGED <<args, remote, reply, headResp, probe, peer, fs, fs0, pc, localPath, s3Res, localRes, net, fsMut,
                 results, bootPc, exitCode>>

\* the write stream has finished: it is open, it was ended and every chunk of the
\* body has been written to the file
FinishedAtEnd(d) == d.ws = "open" /\ d.ended

WriteFinished(d) == d.ws = "open" /\ d.ended /\ d.written = NumChunks

\* the write stream emits 'finish' (ended, everything written): resolve(), and
\* syncFile returns true
Finish ==
  /\ pc = "stream"
  /\ Alive
  /\ WriteFinished(dl)
  /\ dl' = [dl EXCEPT !.ws = "closed"]
  /\ Settle(Ok(TRUE))
  /\ UNCHANGED <<args, remote, reply, headResp, probe, peer, fs, fs0, localPath, s3Res, localRes, net, fsMut>>

\* the body stream emits 'error' (at any time before its end)
BodyError ==
  /\ dl.ws \in {"opening", "open", "failed"}
  /\ Alive
  /\ ~dl.errored /\ ~dl.ended /\ ~dl.closed
  /\ OnStreamError([dl EXCEPT !.errored = TRUE], Err("StreamError"))
  /\ UNCHANGED <<args, remote, reply, headResp, probe, peer, fs, fs0, localPath, s3Res, localRes, net, fsMut>>

\* the body stream is closed before its end without an error (it was destroyed,
\* the request was aborted): it emits 'close' only, for which no handler is
\* registered, and pipe does not end the write stream
BodyClose ==
  /\ dl.ws \in {"opening", "open", "failed"}
  /\ Alive
  /\ ~dl.errored /\ ~dl.ended /\ ~dl.closed
  /\ dl' = [dl EXCEPT !.closed = TRUE]
  /\ UNCHANGED <<args, remote, reply, headResp, probe, peer, fs, fs0, pc, localPath, s3Res, localRes, net, fsMut,
                 results, bootPc, exitCode>>

\* a pending fs.unlink(localPath) of the handlers completes; its failure is ignored
UnlinkDoneEscalating ==
  /\ dl.unlinks > 0
  /\ Alive
  /\ LET p == AbsSegs(localPath)
         code == UnlinkCode(fs, p)
     IN IF code = "ok"
        THEN /\ fs' = RemoveEntry(fs, p)
             /\ dl' = [dl EXCEPT !.unlinks = @ - 1, !.linked = FALSE]
             /\ UNCHANGED results
        ELSE /\ fs' = fs
             /\ dl' = [dl EXCEPT !.unlinks = @ - 1]
             /\ results' = [results EXCEPT ![Len(results)] = Fail(syncFileCatch(Err(code)))]
  /\ UNCHANGED <<args, remote, reply, headResp, probe, peer, fs0, pc, localPath, s3Res, localRes, net, fsMut,
                 bootPc, exitCode>>

UnlinkDone ==
  /\ dl.unlinks > 0
  /\ Alive
  /\ LET p == AbsSegs(localPath)
     IN IF UnlinkCode(fs, p) = "ok"
        THEN /\ fs' = RemoveEntry(fs, p)
             /\ dl' = [dl EXCEPT !.unlinks = @ - 1, !.linked = FALSE]
        ELSE /\ fs' = fs
             /\ dl' = [dl EXCEPT !.unlinks = @ - 1]
  /\ UNCHANGED <<args, remote, reply, headResp, probe, peer, fs0, pc, localPath, s3Res, localRes, net, fsMut,
                 results, bootPc, exitCode>>

\* ------------------------------------------------ the command line
\* the names of the options parseCliArgs declares, and the one the manifest
\* passes for the locator
OptVerbose == <<"v", "e", "r", "b", "o", "s", "e">>
OptMaxResults == <<"m", "a", "x", "-", "r", "e", "s", "u", "l", "t", "s">>
OptWorkspace == <<"w", "o", "r", "k", "s", "p", "a", "c", "e">>
OptFileUri == <<"f", "i", "l", "e", "-", "u", "r", "i">>
OptS3Uri == <<"s", "3", "-", "u", "r", "i">>

DeclaredOptions == {OptVerbose, OptMaxResults, OptWorkspace, OptFileUri}

\* the defaults of the declared options (file-uri has none: undefined, which
\* the model writes <<>> as it does the empty string)
OptionDefaults ==
  (OptVerbose :> <<"f", "a", "l", "s", "e">>)
  @@ (OptMaxResults :> <<"1", "0", "0">>)
  @@ (OptWorkspace :> <<DOT, SL, "w", "o", "r", "k", "s", "p", "a", "c", "e">>)
  @@ (OptFileUri :> <<>>)

\* the tokens --name and --name=value
Long(name) == <<"-", "-">> \o name
LongEq(name, value) == Long(name) \o <<"=">> \o value

\* util.parseArgs, strict, no positionals, every option of type string: the
\* values, or the error it throws
RECURSIVE parseArgsFrom(_, _, _)
parseArgsFrom(argv, i, values) ==
  IF i > Len(argv) THEN [ok |-> TRUE, values |-> values, error |-> ""]
  ELSE
    LET arg == argv[i]
        eq == IndexOf(arg, "=")
        name == IF eq = -1 THEN SliceFrom(arg, 2) ELSE SubSeq(arg, 3, eq)
        failed(code) == [ok |-> FALSE, values |-> values, error |-> code]
    IN IF StartsWith(arg, <<"-", "-">>) /\ Len(arg) > 2
       THEN IF name \notin DeclaredOptions THEN failed("ERR_PARSE_ARGS_UNKNOWN_OPTION")
            ELSE IF eq # -1
            THEN parseArgsFrom(argv, i + 1, [values EXCEPT ![name] = SliceFrom(arg, eq + 1)])
            ELSE IF i + 1 <= Len(argv) /\ ~StartsWith(argv[i + 1], <<"-">>)
            THEN parseArgsFrom(argv, i + 2, [values EXCEPT ![name] = argv[i + 1]])
            ELSE failed("ERR_PARSE_ARGS_INVALID_OPTION_VALUE")
       ELSE IF StartsWith(arg, <<"-">>) /\ Len(arg) > 1
       THEN failed("ERR_PARSE_ARGS_UNKNOWN_OPTION")
       ELSE failed("ERR_PARSE_ARGS_UNEXPECTED_POSITIONAL")

parseArgs(argv) == parseArgsFrom(argv, 1, OptionDefaults)

\* parseInt(x, 10) of a text of digits: the number its leading digits write,
\* -1 (for NaN) when it has none
Digits == <<"0", "1", "2", "3", "4", "5", "6", "7", "8", "9">>
IsDigit(c) == \E d \in 1..Len(Digits) : Digits[d] = c
DigitValue(c) == (CHOOSE d \in 1..Len(Digits) : Digits[d] = c) - 1

RECURSIVE LeadingDigits(_, _)
LeadingDigits(x, acc) ==
  IF Len(x) > 0 /\ IsDigit(x[1]) THEN LeadingDigits(Tail(x), 10 * acc + DigitValue(x[1]))
  ELSE acc

ParseInt(x) == IF Len(x) > 0 /\ IsDigit(x[1]) THEN LeadingDigits(x, 0) ELSE -1

\* parseCliArgs of index.ts: the ServerOptions, or process.exit(1) when
\* parseArgs throws
ParseCliArgs ==
  /\ bootPc = "argv"
  /\ LET parsed == parseArgs(args.argv)
     IN IF parsed.ok
        THEN /\ args' = [args EXCEPT !.maxResults = ParseInt(parsed.values[OptMaxResults]),
                                     !.path = parsed.values[OptWorkspace],
                                     !.uri = parsed.values[OptFileUri]]
             /\ bootPc' = "run"
             /\ UNCHANGED exitCode
        ELSE /\ bootPc' = "exited"
             /\ exitCode' = 1
             /\ UNCHANGED args
  /\ UNCHANGED <<remote, reply, headResp, probe, peer, fs, fs0, pc, localPath, s3Res, localRes,
                 dl, net, fsMut, results>>

\* ------------------------------------------------- the json_query tool
\* JSON values, as far as the envelope tells them apart
Undefined == [t |-> "undefined", n |-> 0, s |-> ""]
Null == [t |-> "null", n |-> 0, s |-> ""]
Num(n) == [t |-> "number", n |-> n, s |-> ""]
Str(s) == [t |-> "string", n |-> 0, s |-> s]
Arr(n) == [t |-> "array", n |-> n, s |-> ""]
Thrown(message) == [t |-> "thrown", n |-> 0, s |-> message]

\* the requests: the file paths and the queries a client sends. "$" selects the
\* document, "$.*" its members, and "$[" is a query the library rejects
ToolPaths == {PathRA, PathRN, RootR, PathRAA}
Queries == {"$", "$.*", "$["}

\* fs.readFile(filePath, 'utf-8'): the error code, or "ok"
ReadFileCodes(f, filePath) ==
  LET p == AbsSegs(filePath)
      code == LookupCode(f, p)
  IN IF code # "ok" THEN {code}
     ELSE IF f[p].kind = "dir" THEN {"EISDIR"}
     ELSE {"ok", "EACCES"}

\* JSON.parse(fileContent): a complete body is the text of an object, the null
\* text is the document null, an empty or truncated text is a SyntaxError
JsonParse(text) ==
  IF text = NullData THEN Null
  ELSE IF text \in {Body, OldData} THEN Str("object")
  ELSE Thrown("SyntaxError")

\* JSONPath({path: query, json: jsonData}): undefined for a document that is
\* falsy, an exception for a query it rejects, else the array of the matches
\* (the document itself for "$", its members for "$.*")
JSONPathResults(query, jsonData) ==
  IF jsonData = Null THEN {Undefined}
  ELSE IF query = "$[" THEN {Thrown("JSONPathError")}
  ELSE IF query = "$" THEN {Arr(1)}
  ELSE {Arr(k) : k \in 0..MaxMatches}

\* JSON.stringify of an object: members whose value is undefined are left out
JsonStringify(obj) == [k \in {f \in DOMAIN obj : obj[f] # Undefined} |-> obj[k]]

\* the response of the try block
SuccessResponse(query, queryResults) ==
  [data |-> queryResults,
   count |-> Num(IF queryResults.t = "array" THEN queryResults.n
                 ELSE IF queryResults # Undefined THEN 1 ELSE 0),
   query |-> Str(query),
   status |-> Str("success"),
   error |-> Null]

\* the response of the catch block
ErrorResponse(query, message) ==
  [data |-> Null, count |-> Num(0), query |-> Str(query), status |-> Str("error"),
   error |-> Str(message)]

\* the handler of json_query: what it returns for a request, readFile having
\* given code and JSONPath queryResults; failure names the step that threw
jsonQueryHandler(f, filePath, query, code, queryResults) ==
  LET jsonData == JsonParse(f[AbsSegs(filePath)].data)
      returned(failure, response) ==
        [filePath |-> filePath, query |-> query, failure |-> failure, raised |-> FALSE,
         text |-> JsonStringify(response)]
  IN IF code # "ok" THEN returned("read", ErrorResponse(query, code))
     ELSE IF jsonData.t = "thrown" THEN returned("parse", ErrorResponse(query, jsonData.s))
     ELSE IF queryResults.t = "thrown"
     THEN returned("query", ErrorResponse(query, queryResults.s))
     ELSE returned("none", SuccessResponse(query, queryResults))

\* a client calls json_query on the connected server
JsonQuery ==
  /\ bootPc = "serving"
  /\ \E filePath \in ToolPaths, query \in Queries :
       \E code \in ReadFileCodes(fs, filePath) :
         LET jsonData == IF code = "ok" THEN JsonParse(fs[AbsSegs(filePath)].data)
                         ELSE Thrown(code)
         IN \E queryResults \in JSONPathResults(query, jsonData) :
              reply' = <<jsonQueryHandler(fs, filePath, query, code, queryResults)>>
  /\ UNCHANGED <<args, remote, headResp, probe, peer, fs, fs0, pc, localPath, s3Res, localRes,
                 dl, net, fsMut, results, bootPc, exitCode>>

Next ==
  \/ Call
  \/ Run
  \/ Connect
  \/ Sigint
  \/ RootStatDone
  \/ ProbeWriteDone
  \/ ProbeUnlinkDone
  \/ LocatePath
  \/ SyncFileStart
  \/ HeadDone
  \/ StatDone
  \/ Decide
  \/ MkdirDone
  \/ GetDone
  \/ OpenDone
  \/ Data
  \/ Flush
  \/ End
  \/ Finish
  \/ BodyError
  \/ UnlinkDone

Spec == Init /\ [][Next]_vars

\* the same program over every key of the key universe, its root holding a
\* file and the remote object being newer
InitKeys ==
  InitOver(ArgsOver(KeyLocators, {RootR, PathSlash}, {PathRA}, {"A"}), {NewestRemote})

SpecKeys == InitKeys /\ [][Next]_vars

\* run goes on after the sync: the statement after the await is always executed
FairSpec == Spec /\ WF_vars(Connect)

\* two syncToRoot calls run concurrently on the same root (for different
\* locators): the call above, and the validation of the root by the other one
InitPair ==
  InitOver({[a EXCEPT !.concurrent = TRUE] :
              a \in {x \in ArgsOver({S3Prefix \o <<"b", SL, "a">>}, {RootR, PathW},
                                    {PathRA}, {"A", "B"}) : x.entry = "syncToRoot"}},
           {NewestRemote})

NextPair ==
  \/ Call
  \/ RootStatDone
  \/ ProbeWriteDone
  \/ ProbeUnlinkDone
  \/ PeerStatDone
  \/ PeerWriteDone
  \/ PeerUnlinkDone
  \/ LocatePath
  \/ SyncFileStart
  \/ HeadDone
  \/ StatDone
  \/ Decide
  \/ MkdirDone
  \/ GetDone
  \/ OpenDone
  \/ Data
  \/ Flush
  \/ End
  \/ Finish
  \/ BodyError
  \/ UnlinkDone

SpecPair == InitPair /\ [][NextPair]_vars

\* the same program over every locator of the locator universe: a scheme, or
\* something close to it, followed by up to MaxUriLen characters
SchemeLike ==
  { S3Prefix, <<>>, <<"s", "3", ":", SL>>, <<"s", "3", SL, SL>>, <<"S", "3", ":", SL, SL>>,
    <<"x">> \o S3Prefix }

UriAlphabet == {"a", "b", SL}

Uris == {scheme \o rest : scheme \in SchemeLike, rest \in StringsUpTo(UriAlphabet, MaxUriLen)}

InitUris == InitOver(ArgsOver(Uris, {RootR}, {PathRA}, {"A"}), {NewestRemote})

SpecUris == InitUris /\ [][Next]_vars

\* the same program over remote objects of every content tag and size
MetaTags == {<<>>, <<"e">>, <<"f">>}
MetaSizes == {<<>>, <<0>>, <<1>>, <<NumChunks>>}

TaggedRemotes ==
  {NoInfo}
  \cup {[r EXCEPT !.etag = e, !.size = z] :
          r \in Remotes \ {NoInfo}, e \in MetaTags, z \in MetaSizes}

InitMeta ==
  InitOver(ArgsOver({S3Prefix \o <<"b", SL, "a">>}, {RootR}, {PathRA}, {"A", "B"}),
           TaggedRemotes)

SpecMeta == InitMeta /\ [][Next]_vars

\* the server with its json_query tool: the startup sync, then requests. The
\* max-results option takes small values and its default
MaxResultsValues == {1, 2, DefaultMaxResults}

InitTools ==
  InitOver({[a EXCEPT !.maxResults = m] :
              a \in {x \in ArgsOver({S3Prefix \o <<"b", SL, "a">>}, {RootR}, {PathRA},
                                    {"A", "B", "C"}) : x.entry = "run"},
              m \in MaxResultsValues},
           Remotes)

NextTools ==
  \/ Run
  \/ Connect
  \/ Sigint
  \/ JsonQuery
  \/ SyncFileStart
  \/ HeadDone
  \/ StatDone
  \/ Decide
  \/ MkdirDone
  \/ GetDone
  \/ OpenDone
  \/ Data
  \/ Flush
  \/ End
  \/ Finish
  \/ BodyError
  \/ UnlinkDone

SpecTools == InitTools /\ [][NextTools]_vars

\* the server from its command line on: the argument lists the manifest's
\* mcp_config builds from the user's configuration, and others
ManifestArgs(verbose, s3Uri, maxResults) ==
  <<LongEq(OptVerbose, verbose), LongEq(OptS3Uri, s3Uri), LongEq(OptMaxResults, maxResults)>>

ConfigVerbose == {<<"t", "r", "u", "e">>, <<"f", "a", "l", "s", "e">>}
ConfigS3Uri == {<<>>, S3Prefix \o <<"b", SL, "a">>}
ConfigMaxResults == {<<"1">>, <<"1", "0", "0">>}

ManifestArgvs ==
  {ManifestArgs(v, u, m) : v \in ConfigVerbose, u \in ConfigS3Uri, m \in ConfigMaxResults}

OtherArgvs ==
  { <<>>,
    <<LongEq(OptFileUri, S3Prefix \o <<"b", SL, "a">>)>>,
    <<Long(OptFileUri), S3Prefix \o <<"b", SL, "a">>, LongEq(OptWorkspace, RootR)>>,
    <<LongEq(OptWorkspace, RootR), LongEq(OptFileUri, S3Prefix \o <<"b", SL, "a">>),
      LongEq(OptMaxResults, <<"2">>)>>,
    <<LongEq(OptVerbose, <<"t", "r", "u", "e">>), Long(OptMaxResults)>>,
    <<S3Prefix \o <<"b", SL, "a">>>> }

InitCli ==
  InitFrom({[a EXCEPT !.argv = v] :
              a \in {x \in ArgsOver({}, {<<>>}, {}, {"A", "B"}) : x.entry = "run"},
              v \in ManifestArgvs \cup OtherArgvs},
           Remotes, "argv")

NextCli ==
  \/ ParseCliArgs
  \/ Run
  \/ Connect
  \/ Sigint
  \/ SyncFileStart
  \/ HeadDone
  \/ StatDone
  \/ Decide
  \/ MkdirDone
  \/ GetDone
  \/ OpenDone
  \/ Data
  \/ Flush
  \/ End
  \/ Finish
  \/ BodyError
  \/ UnlinkDone

SpecCli == InitCli /\ [][NextCli]_vars

\* syncToRoot on a root in which a file has the name of the probe
InitProbe ==
  InitOver({x \in ArgsOver({S3Prefix \o <<"b", SL, "a">>}, {RootR}, {PathRA}, {"B", "D"}) :
              x.entry = "syncToRoot"},
           Remotes)

NextRoot ==
  \/ Call
  \/ RootStatDone
  \/ ProbeWriteDone
  \/ ProbeUnlinkDone
  \/ LocatePath
  \/ SyncFileStart
  \/ HeadDone
  \/ StatDone
  \/ Decide
  \/ MkdirDone
  \/ GetDone
  \/ OpenDone
  \/ Data
  \/ Flush
  \/ End
  \/ Finish
  \/ BodyError
  \/ UnlinkDone

SpecProbe == InitProbe /\ [][NextRoot]_vars

\* syncFile calls whose body stream may also be closed before its end
InitStreams ==
  InitOver({x \in ArgsOver({S3Prefix \o <<"b", SL, "a">>}, {RootR}, {PathRA, PathWDA},
                           {"A", "B"}) : x.entry = "syncFile"},
           Remotes)

NextStreams ==
  \/ Call
  \/ SyncFileStart
  \/ HeadDone
  \/ StatDone
  \/ Decide
  \/ MkdirDone
  \/ GetDone
  \/ OpenDone
  \/ Data
  \/ Flush
  \/ End
  \/ Finish
  \/ BodyError
  \/ BodyClose
  \/ UnlinkDone

SpecStreams == InitStreams /\ [][NextStreams]_vars

\* ----------------------------------------------------------------- claims
\* the result of the call that settled last
Last == results[Len(results)]

\* the segments of the path syncFile works on
LocalSegs == AbsSegs(localPath)

\* segs is dir or lies under it
Under(segs, dir) == Len(segs) >= Len(dir) /\ SubSeq(segs, 1, Len(dir)) = dir

\* the entry at q differs from the one the run started with
ChangedSinceInit(q) ==
  LET f == InitFs(args.fsConf)
  IN IF q \in DOMAIN fs /\ q \in DOMAIN f THEN fs[q] # f[q] ELSE TRUE

\* the key of a well-formed locator
KeyOf(uri) == parseS3Uri(uri).key

\* C1: during syncToRoot every path created, written or deleted (probe,
\* directories, file, cleanup) is the root or lies under it, and nothing
\* outside the root ever differs from what was there before, for every key.
C1_MutationsStayUnderRoot ==
  args.entry = "syncToRoot" =>
    /\ \A p \in fsMut : Under(p, AbsSegs(args.path))
    /\ \A q \in DOMAIN fs \cup DOMAIN InitFs(args.fsConf) :
         ChangedSinceInit(q) => Under(q, AbsSegs(args.path))

\* C1 witness: a key starting with '../' was downloaded, structure preserved
C1_Witness ==
  /\ args.entry = "syncToRoot" /\ args.preserve
  /\ parseS3Uri(args.uri).ok /\ StartsWith(KeyOf(args.uri), <<DOT, DOT, SL>>)
  /\ pc = "returned" /\ Last.ok /\ Last.value
  /\ LocalSegs \in fsMut
  /\ fs[LocalSegs].data = Body

\* C2: once syncFile has failed of an error on the body stream or the write
\* stream, and the cleanup has run (no open and no delete is still pending),
\* there is no file at localPath.
C2_PartialFileRemoved ==
  (pc = "returned" /\ ~Last.ok /\ dl.ws \notin {"none", "opening"} /\ dl.unlinks = 0)
    => ~(LookupCode(fs, LocalSegs) = "ok" /\ fs[LocalSegs].kind = "file")

\* C3 as stated: when the remote lookup reports the object absent, syncFile
\* fails with RemoteObjectNotFound, without a body request or any local change.
C3_RemoteAbsentIsNotFound ==
  (pc = "returned" /\ s3Res.st = "done" /\ ~s3Res.info.exists)
    => /\ ~Last.ok /\ KindOf(Last) = "RemoteObjectNotFound"
       /\ net.get = 0 /\ fs = fs0 /\ dl = NoDownload

\* C3 amended: when the remote lookup reports the object absent, syncFile fails
\* without a body request or any local change; it fails with
\* RemoteObjectNotFound if the local lookup completed, and with the local
\* lookup's error if that lookup failed.
C3_RemoteAbsentNoFetch ==
  (pc = "returned" /\ s3Res.st = "done" /\ ~s3Res.info.exists)
    => /\ ~Last.ok
       /\ net.get = 0 /\ fs = fs0 /\ dl = NoDownload
       /\ localRes.st \in {"done", "failed"}
       /\ localRes.st = "done" => KindOf(Last) = "RemoteObjectNotFound"
       /\ localRes.st = "failed" => KindOf(Last) = KindOf(localRes)

\* C3 witness: the remote is absent, the local lookup completed, syncFile failed
C3_Witness ==
  /\ pc = "returned" /\ s3Res.st = "done" /\ ~s3Res.info.exists
  /\ localRes.st = "done" /\ localRes.info.exists
  /\ ~Last.ok /\ KindOf(Last) = "RemoteObjectNotFound"

\* C4: when the remote exists, the local file exists and the remote is not
\* strictly newer (or has no timestamp), syncFile returns false, issues no body
\* request and leaves the file system as it was.
C4_NotNewerNoFetch ==
  (/\ pc = "returned" /\ s3Res.st = "done" /\ localRes.st = "done"
   /\ s3Res.info.exists /\ localRes.info.exists
   /\ \/ s3Res.info.lastModified = <<>>
      \/ s3Res.info.lastModified[1] <= localRes.info.lastModified[1])
    => /\ Last.ok /\ Last.value = FALSE
       /\ net.get = 0 /\ fs = fs0 /\ dl = NoDownload

\* C4 witness: equal timestamps, false returned
C4_Witness ==
  /\ pc = "returned" /\ s3Res.st = "done" /\ localRes.st = "done"
  /\ s3Res.info.exists /\ localRes.info.exists
  /\ s3Res.info.lastModified = localRes.info.lastModified
  /\ Last.ok /\ Last.value = FALSE

\* the errors a download can end with
DownloadFailures ==
  {"EACCES", "ENOTDIR", "EEXIST", "EISDIR", "ENOENT", "TransportError", "NoBody",
   "StreamError", "WriteError"}

\* the remote exists and is strictly newer than the local file, or that is absent
RemoteIsNewer ==
  /\ s3Res.st = "done" /\ localRes.st = "done" /\ s3Res.info.exists
  /\ \/ ~localRes.info.exists
     \/ /\ s3Res.info.lastModified # <<>>
        /\ s3Res.info.lastModified[1] > localRes.info.lastModified[1]

\* C5: when the remote exists and is strictly newer than the local file (or the
\* local file is absent), syncFile never returns false: if it returns, it
\* returns true, after exactly one body request, and the file at localPath
\* then holds the complete remote body; if it fails, a step of the download
\* failed (and only a failed directory creation avoids the body request).
C5_NewerIsDownloaded ==
  (pc = "returned" /\ RemoteIsNewer)
    => /\ Last.ok => /\ Last.value = TRUE
                     /\ net.get = 1
                     /\ LookupCode(fs, LocalSegs) = "ok"
                     /\ fs[LocalSegs].kind = "file"
                     /\ fs[LocalSegs].data = Body
       /\ ~Last.ok => /\ KindOf(Last) \in DownloadFailures
                      /\ net.get = 0 => DownloadPrefix \in {Last.msg[i] : i \in 1..Len(Last.msg)}

\* C5 witness: an older local file was replaced by the complete body
C5_Witness ==
  /\ pc = "returned" /\ RemoteIsNewer /\ localRes.info.exists
  /\ Last.ok /\ Last.value
  /\ fs0[LocalSegs].data = OldData
  /\ fs[LocalSegs].data = Body

\* C6: of two successive syncFile calls, the local file absent before the first
\* and the remote unchanged, the first returns true and the second false.
C6_SecondCallReturnsFalse ==
  (/\ args.entry = "syncFile" /\ Len(results) >= 2
   /\ LookupCode(InitFs(args.fsConf), AbsSegs(args.path)) = "ENOENT"
   /\ results[1].ok /\ results[2].ok)
    => results[1].value = TRUE /\ results[2].value = FALSE

\* the startup sync has failed
StartupSyncFailed == args.entry = "run" /\ results # <<>> /\ ~results[1].ok

\* C7: when the startup sync fails, the process does not exit of it (it exits
\* only with code 0, by the SIGINT handler that is installed after the
\* connect), and the server goes on to connect its transport (it gets to
\* serve; having served, it may have exited on SIGINT).
C7_StartsDespiteSyncFailure ==
  /\ [](StartupSyncFailed =>
          \/ bootPc \in {"connect", "serving"}
          \/ bootPc = "exited" /\ exitCode = 0)
  /\ (StartupSyncFailed ~> bootPc \in {"serving", "exited"})

\* C7 witness: the sync failed of a stream error and the server is connected
C7_Witness ==
  StartupSyncFailed /\ KindOf(results[1]) = "StreamError" /\ bootPc = "serving"

\* C8: at startup a workspace that does not exist makes the sync fail with
\* RootNotFound, without any remote request and without creating the directory.
C8_StartupValidatesRoot ==
  (args.entry = "run" /\ LookupCode(InitFs(args.fsConf), AbsSegs(args.path)) = "ENOENT")
    => /\ net.head = 0 /\ net.get = 0
       /\ AbsSegs(args.path) \notin DOMAIN fs
       /\ results # <<>> => (~results[1].ok /\ KindOf(results[1]) = "RootNotFound")

\* C9: without a locator the bootstrap never enters the sync: no remote request,
\* no file operation; and in every run there is at most one sync invocation,
\* which has settled when the server connects.
C9_SyncSkippedOrOnce ==
  args.entry = "run" =>
    /\ args.uri = <<>> =>
         /\ pc = "start" /\ results = <<>>
         /\ net.head = 0 /\ net.get = 0
         /\ fs = InitFs(args.fsConf) /\ fsMut = {} /\ dl = NoDownload
    /\ Len(results) <= 1
    /\ pc \notin {"start", "returned"} => results = <<>> /\ bootPc = "syncing"
    /\ bootPc \in {"connect", "serving", "exited"} => pc \in {"start", "returned"}

\* C9 witness: the server is connected without a locator
C9_Witness == args.entry = "run" /\ args.uri = <<>> /\ bootPc = "serving"

\* C10: when the root path does not exist (stat reports it missing), syncToRoot
\* fails with RootNotFound and issues no remote request.
C10_MissingRootFailsOffline ==
  (args.entry = "syncToRoot"
   /\ LookupCode(InitFs(args.fsConf), AbsSegs(args.path)) = "ENOENT")
    => /\ net.head = 0 /\ net.get = 0
       /\ pc \in {"start", "validate", "returned"}
       /\ pc = "returned" => (~Last.ok /\ KindOf(Last) = "RootNotFound")

\* C10 witness: syncToRoot on a missing root has failed with RootNotFound
C10_Witness ==
  /\ args.entry = "syncToRoot"
  /\ LookupCode(InitFs(args.fsConf), AbsSegs(args.path)) = "ENOENT"
  /\ pc = "returned" /\ KindOf(Last) = "RootNotFound"

\* the root of the call is, in f, something that is not a directory
RootIsNotADirectory(f) ==
  LookupCode(f, AbsSegs(args.path)) = "ok" /\ f[AbsSegs(args.path)].kind # "dir"

\* C11: when the root path exists but is not a directory, validateRoot fails
\* with RootNotADirectory (syncToRoot goes no further), and no probe file is
\* created: no write of it is attempted and the file system stays as it was.
C11_NotADirectoryNoProbe ==
  (args.entry = "syncToRoot" /\ RootIsNotADirectory(InitFs(args.fsConf)))
    => /\ pc \in {"start", "validate", "returned"}
       /\ pc = "returned" => (~Last.ok /\ KindOf(Last) = "RootNotADirectory")
       /\ probe = NoProbe
       /\ TestFile(args.path) \notin fsMut
       /\ fs = InitFs(args.fsConf)

\* C11 witness: syncToRoot on a root that is a regular file has failed
C11_Witness ==
  /\ args.entry = "syncToRoot" /\ RootIsNotADirectory(fs)
  /\ pc = "returned" /\ KindOf(Last) = "RootNotADirectory"

\* syncToRoot is past validateRootDirectory, which succeeded
RootValidated ==
  \/ pc \in {"locate", "parse", "lookups", "decide", "mkdir", "get", "stream"}
  \/ pc = "returned" /\ Last.ok

\* C12: validateRoot fails with RootNotWritable whenever the write of the probe
\* fails, and whenever its removal fails after it was written; the validation
\* succeeds only if the probe was written and removed.
C12_ProbeDecidesWritable ==
  args.entry = "syncToRoot" =>
    /\ probe.write \notin {"none", "ok"} =>
         /\ pc = "returned" /\ ~Last.ok /\ KindOf(Last) = "RootNotWritable"
         /\ probe.unlink = "none"
    /\ probe.unlink \notin {"none", "ok"} =>
         /\ pc = "returned" /\ ~Last.ok /\ KindOf(Last) = "RootNotWritable"
         /\ probe.write = "ok"
    /\ RootValidated =>
         /\ probe.write = "ok" /\ probe.unlink = "ok"
         /\ TestFile(args.path) \notin DOMAIN fs

\* C12 witness: the probe was written, its removal was refused, syncToRoot
\* failed with RootNotWritable and the probe is still there
C12_Witness ==
  /\ args.entry = "syncToRoot"
  /\ probe.write = "ok" /\ probe.unlink = "EACCES"
  /\ pc = "returned" /\ KindOf(Last) = "RootNotWritable"
  /\ TestFile(args.path) \in DOMAIN fs

\* the path syncToRoot computes for its arguments
ComputedPath == generateLocalPath(args.path, KeyOf(args.uri), args.preserve)

\* every step of syncToRoot before syncFile succeeds on its arguments
StepsSucceed ==
  /\ RootStat(fs, args.path) = "ok"
  /\ probe.write = "ok" /\ probe.unlink = "ok"
  /\ parseS3Uri(args.uri).ok
  /\ ComputedPath.ok
  /\ PathWithinRoot(ComputedPath.path, args.path)

\* C13: every failure of syncToRoot, at whatever step, is an error carrying
\* the sync-failure prefix; an outcome is returned only when every step
\* succeeded, and then wasDownloaded is syncFile's result (true after a
\* finished download, false without any), localPath is the computed path and
\* filename its base name.
C13_FailuresWrappedOutcomeWhole ==
  (args.entry = "syncToRoot" /\ pc = "returned") =>
    /\ ~Last.ok =>
         /\ Last.msg[1] = SyncPrefix
         /\ Last.localPath = <<>> /\ Last.filename = <<>>
         /\ KindOf(Last) \in
              {"RootNotFound", "RootNotADirectory", "RootNotWritable", "ENOTDIR",
               "MalformedLocator", "EmptyFilename", "PathEscapesRoot",
               "RemoteObjectNotFound", "TransportError"} \cup DownloadFailures
    /\ Last.ok =>
         /\ StepsSucceed
         /\ Last.localPath = ComputedPath.path
         /\ Last.filename = Basename(ComputedPath.path)
         /\ Last.value = TRUE => dl.ws = "closed" /\ net.get = 1
         /\ Last.value = FALSE => dl = NoDownload /\ net.get = 0

\* C13 witness: an outcome for a key in a directory, downloaded
C13_Witness ==
  /\ args.entry = "syncToRoot" /\ pc = "returned" /\ Last.ok /\ Last.value
  /\ args.preserve /\ KeyOf(args.uri) = <<"d", SL, "a">>
  /\ Last.localPath = <<SL, "r", SL, "d", SL, "a">> /\ Last.filename = <<"a">>

\* syncFile is past its lookups: it is at the existence check and the freshness
\* decision, or in the download
PastLookups == pc \in {"decide", "mkdir", "get", "stream"}

\* C14: the two lookups of syncFile are started together; syncFile is at the
\* existence check, the freshness decision or the download only when both
\* lookups have completed; and when a lookup has failed, syncFile has failed
\* with the error of a failed lookup, no body request was issued, no stream
\* was created and no file was changed, whatever the other lookup gave.
C14_LookupsJoinBeforeBranch ==
  /\ (s3Res.st = "idle") = (localRes.st = "idle")
  /\ pc = "lookups" => s3Res.st # "idle" /\ localRes.st # "idle"
  /\ PastLookups => s3Res.st = "done" /\ localRes.st = "done"
  /\ (pc = "returned" /\ Last.ok) => s3Res.st = "done" /\ localRes.st = "done"
  /\ (s3Res.st = "failed" \/ localRes.st = "failed") =>
       /\ pc = "returned" /\ ~Last.ok
       /\ KindOf(Last) \in {KindOf(r) : r \in {x \in {s3Res, localRes} : x.st = "failed"}}
       /\ net.get = 0 /\ dl = NoDownload /\ fs = fs0

\* C14 witness: the remote lookup gave a newer object, the local lookup then
\* failed, and syncFile failed of it without a download
C14_Witness ==
  /\ s3Res.st = "done" /\ s3Res.info.exists /\ localRes.st = "failed"
  /\ pc = "returned" /\ ~Last.ok /\ KindOf(Last) = "ENOTDIR"
  /\ net.get = 0

\* C15: of two syncToRoot calls running concurrently on the same root, neither
\* makes the other fail: a call fails its validation with RootNotWritable only
\* when the file system refused its own probe (as it would if the call ran
\* alone), never because the probe it wrote was gone when it removed it.
C15_ConcurrentCallsIndependent ==
  args.concurrent =>
    /\ (pc = "returned" /\ ~Last.ok /\ KindOf(Last) = "RootNotWritable")
         => "EACCES" \in {probe.write, probe.unlink}
    /\ (peer.pc = "failed" /\ peer.error = "RootNotWritable")
         => "EACCES" \in {peer.write, peer.unlink}

\* the complete bodies a reader may find at the destination: the one that was
\* there before the sync, or the one of the remote object
CompleteBodies == {OldData, Body}

\* C16: whenever the destination path can be read (during a download, and
\* while the server serves), there is no file there or a file holding a
\* complete body, the previous one or the new one.
C16_NoPartialFileVisible ==
  (localPath # <<>> /\ LookupCode(fs, LocalSegs) = "ok" /\ fs[LocalSegs].kind = "file")
    => fs[LocalSegs].data \in CompleteBodies

\* uri is 's3://' + b + '/' + k, the '/' at position i, with b non-empty and
\* without '/', and k non-empty
IsSchemeBucketKey(uri, i) ==
  /\ StartsWith(uri, S3Prefix)
  /\ i \in (Len(S3Prefix) + 2)..(Len(uri) - 1)
  /\ uri[i] = SL
  /\ \A j \in (Len(S3Prefix) + 1)..(i - 1) : uri[j] # SL

\* C17: for every locator 's3://' + b + '/' + k, b non-empty and without '/',
\* k non-empty, parse gives bucket b and key k (the split is at the first '/'
\* after the scheme); syncFile called with it gets to its lookups, and no call
\* with it fails with MalformedLocator.
C17_WellFormedParses ==
  \A i \in 1..Len(args.uri) :
    IsSchemeBucketKey(args.uri, i) =>
      /\ parseS3Uri(args.uri) =
           [ok |-> TRUE,
            bucket |-> SubSeq(args.uri, Len(S3Prefix) + 1, i - 1),
            key |-> SubSeq(args.uri, i + 1, Len(args.uri))]
      /\ (args.entry \in {"syncFile", "run"} /\ pc \notin {"start", "parse"})
           => (s3Res.st # "idle" /\ net.head = 1)
      /\ (pc = "returned" /\ ~Last.ok) => KindOf(Last) # "MalformedLocator"

\* C17 witness: syncFile has parsed 's3://a/b/a' into bucket 'a' and key 'b/a'
\* and started its lookups
C17_Witness ==
  /\ args.entry = "syncFile" /\ pc = "lookups"
  /\ args.uri = S3Prefix \o <<"a", SL, "b", SL, "a">>
  /\ parseS3Uri(args.uri).bucket = <<"a">>
  /\ parseS3Uri(args.uri).key = <<"b", SL, "a">>

\* uri does not start with 's3://', or has no '/' after it, or its bucket (what
\* is before the first '/' after the scheme) or its key (what is after it) is
\* empty
Malformed(uri) ==
  \/ ~StartsWith(uri, S3Prefix)
  \/ LET rest == SubSeq(uri, Len(S3Prefix) + 1, Len(uri))
         slashes == {j \in 1..Len(rest) : rest[j] = SL}
     IN \/ slashes = {}
        \/ 1 \in slashes
        \/ slashes = {Len(rest)}

\* C18: for every malformed locator parse fails with MalformedLocator; a
\* syncFile call with it (direct, or from the bootstrap) fails with
\* MalformedLocator, starts no lookup, issues no remote request and touches no
\* file; syncToRoot with it issues no remote request and fails.
C18_MalformedFails ==
  Malformed(args.uri) =>
    /\ ~parseS3Uri(args.uri).ok
    /\ KindOf(parseS3Uri(args.uri)) = "MalformedLocator"
    /\ net.head = 0 /\ net.get = 0 /\ dl = NoDownload
    /\ s3Res = Idle /\ localRes = Idle
    /\ pc = "returned" => ~Last.ok
    /\ args.entry \in {"syncFile", "run"} =>
         /\ fs = InitFs(args.fsConf) /\ fsMut = {}
         /\ pc = "returned" => KindOf(Last) = "MalformedLocator"

\* C18 witness: syncFile with 's3://a/' (empty key) failed with MalformedLocator
C18_Witness ==
  /\ args.entry = "syncFile" /\ args.uri = S3Prefix \o <<"a", SL>>
  /\ pc = "returned" /\ ~Last.ok /\ KindOf(Last) = "MalformedLocator"

\* both lookups of syncFile have completed
LookedUp == s3Res.st = "done" /\ localRes.st = "done"

\* C19: isRemoteNewer is true for every existing remote, with or without a
\* timestamp, when the local file does not exist; syncFile, having found the
\* remote and no local file, goes on to the download and never returns false.
C19_LocalAbsentIsNewer ==
  /\ \A r \in Remotes : r.exists => isS3FileNewer(r, NoInfo)
  /\ (LookedUp /\ s3Res.info.exists /\ ~localRes.info.exists) =>
       /\ isS3FileNewer(s3Res.info, localRes.info)
       /\ pc \in {"decide", "mkdir", "get", "stream", "returned"}
       /\ pc = "returned" => ~(Last.ok /\ Last.value = FALSE)

\* C19 witness: a remote without timestamp, no local file, the download started
C19_Witness ==
  /\ LookedUp /\ s3Res.info.exists /\ s3Res.info.lastModified = <<>>
  /\ ~localRes.info.exists
  /\ pc = "stream" /\ net.get = 1

\* what fs.stat and HeadObject can give for a file that exists, the timestamp
\* available or not
InfosOfExisting ==
  {[exists |-> TRUE, lastModified |-> lm, etag |-> <<>>, size |-> <<1>>] :
     lm \in {<<>>} \cup {<<t>> : t \in 1..MaxTime}}

\* C20: with the local file existing, isRemoteNewer is false when the remote
\* does not exist and when the remote or the local timestamp is unavailable;
\* syncFile on an existing local file and a remote without timestamp returns
\* false without a body request.
C20_IncomparableIsNotNewer ==
  /\ \A l \in InfosOfExisting : ~isS3FileNewer(NoInfo, l)
  /\ \A r \in InfosOfExisting, l \in InfosOfExisting :
       (r.lastModified = <<>> \/ l.lastModified = <<>>) => ~isS3FileNewer(r, l)
  /\ (LookedUp /\ s3Res.info.exists /\ s3Res.info.lastModified = <<>>
      /\ localRes.info.exists) =>
       /\ ~isS3FileNewer(s3Res.info, localRes.info)
       /\ pc \in {"decide", "returned"}
       /\ net.get = 0 /\ dl = NoDownload /\ fs = fs0
       /\ pc = "returned" => (Last.ok /\ Last.value = FALSE)

\* C20 witness: a remote without timestamp, an existing local file, false returned
C20_Witness ==
  /\ LookedUp /\ s3Res.info.exists /\ s3Res.info.lastModified = <<>>
  /\ localRes.info.exists
  /\ pc = "returned" /\ Last.ok /\ Last.value = FALSE /\ net.get = 0

\* both files exist and both timestamps are available
Comparable(r, l) ==
  r.exists /\ l.exists /\ r.lastModified # <<>> /\ l.lastModified # <<>>

\* C21: when both files exist and both timestamps are available, isRemoteNewer
\* is true exactly when the remote timestamp is strictly later than the local
\* one (false for equal ones); syncFile then downloads exactly in that case.
C21_StrictlyLaterOnly ==
  /\ \A r \in InfosOfExisting, l \in InfosOfExisting :
       Comparable(r, l) => (isS3FileNewer(r, l) <=> r.lastModified[1] > l.lastModified[1])
  /\ (LookedUp /\ Comparable(s3Res.info, localRes.info)) =>
       /\ pc \in {"mkdir", "get", "stream"}
            => s3Res.info.lastModified[1] > localRes.info.lastModified[1]
       /\ (pc = "returned" /\ Last.ok) =>
            (Last.value <=> s3Res.info.lastModified[1] > localRes.info.lastModified[1])
       /\ (pc = "returned" /\ ~Last.ok) =>
            s3Res.info.lastModified[1] > localRes.info.lastModified[1]

\* C21 witness: the remote one tick later than the local file, downloaded
C21_Witness ==
  /\ LookedUp /\ Comparable(s3Res.info, localRes.info)
  /\ s3Res.info.lastModified[1] = localRes.info.lastModified[1] + 1
  /\ pc = "returned" /\ Last.ok /\ Last.value

\* metadata without its content tag and its size
WithoutTagAndSize(i) == [i EXCEPT !.etag = <<>>, !.size = <<>>]

\* what the local lookup can give: nothing, or a file of some time and size
LocalInfos ==
  {NoInfo}
  \cup {[exists |-> TRUE, lastModified |-> lm, etag |-> <<>>, size |-> <<n>>] :
          lm \in {<<>>} \cup {<<t>> : t \in 1..MaxTime}, n \in 0..NumChunks}

\* C22: the content tag and the size play no part in the freshness decision:
\* isRemoteNewer gives for every pair of metadata what it gives for the pair
\* without tags and sizes (so two pairs that agree on exists and lastModified
\* get the same value), and syncFile downloads or not accordingly.
C22_TagAndSizeIgnored ==
  /\ \A r \in TaggedRemotes, l \in LocalInfos :
       isS3FileNewer(r, l)
         = isS3FileNewer(WithoutTagAndSize(r), WithoutTagAndSize(l))
  /\ (LookedUp /\ s3Res.info.exists) =>
       LET newer == isS3FileNewer(WithoutTagAndSize(s3Res.info),
                                  WithoutTagAndSize(localRes.info))
       IN /\ pc \in {"mkdir", "get", "stream"} => newer
          /\ (pc = "returned" /\ Last.ok) => (Last.value <=> newer)
          /\ (pc = "returned" /\ ~Last.ok) => newer

\* C22 witness: a remote without content tag whose size differs from that of
\* the local file, not newer: nothing was downloaded
C22_Witness ==
  /\ LookedUp /\ s3Res.info.exists /\ localRes.info.exists
  /\ s3Res.info.etag = <<>> /\ s3Res.info.size = <<0>> /\ localRes.info.size = <<1>>
  /\ s3Res.info.lastModified = localRes.info.lastModified
  /\ pc = "returned" /\ Last.ok /\ ~Last.value /\ net.get = 0

\* C23: within one syncFile invocation at most one metadata request and at
\* most one body request are issued, whatever their outcomes; failures are not
\* retried; a body request is issued only after the metadata request reported
\* that the object exists and the remote was found newer (or the local file
\* absent).
C23_NoRetry ==
  /\ net.head <= 1 /\ net.get <= 1
  /\ net.get = 1 => (net.head = 1 /\ RemoteIsNewer)
  /\ (s3Res.st = "failed" \/ localRes.st = "failed") => (pc = "returned" /\ net.get = 0)
  /\ (pc = "returned" /\ ~Last.ok /\ KindOf(Last) \in {"TransportError", "NoBody"})
       => dl = NoDownload

\* C23 witness: the body request failed and syncFile failed with it, after one
\* request of each kind
C23_Witness ==
  /\ pc = "returned" /\ ~Last.ok /\ KindOf(Last) = "TransportError"
  /\ net.head = 1 /\ net.get = 1 /\ dl = NoDownload

\* the response to the metadata request is a not-found one: an error named
\* NotFound, or an error of HTTP status 404
IsNotFoundResponse(response) ==
  response.kind = "error" /\ (response.name = "NotFound" \/ response.status = 404)

\* statRemote: a not-found response gives {exists: false}, every other error
\* is propagated as it is
StatRemoteMapping ==
  /\ IsNotFoundResponse(headResp) => s3Res = Done(NoInfo)
  /\ (headResp.kind = "error" /\ ~IsNotFoundResponse(headResp)) =>
       /\ s3Res.st = "failed"
       /\ pc = "returned" /\ ~Last.ok /\ KindOf(Last) = "TransportError"
       /\ net.get = 0
  /\ headResp.kind = "ok" => s3Res = Done(remote)

C25_MissingLocalDownloads ==
  /\ (localRes.st = "done" /\ ~localRes.info.exists) =>
       LookupCode(fs0, LocalSegs) = "ENOENT"
  /\ (localRes.st = "done" /\ localRes.info.exists) =>
       LookupCode(fs0, LocalSegs) = "ok"
  /\ (localRes.st \in {"done", "failed"} /\ LookupCode(fs0, LocalSegs) = "ENOTDIR") =>
       localRes.st = "failed"
  /\ localRes.st = "failed" =>
       /\ KindOf(localRes) \in {"EACCES", "ENOTDIR"}
       /\ pc = "returned" /\ ~Last.ok /\ KindOf(Last) = KindOf(localRes)
       /\ net.get = 0 /\ dl = NoDownload /\ fs = fs0
  /\ (LookedUp /\ ~localRes.info.exists /\ s3Res.info.exists) =>
       /\ pc \in {"decide", "mkdir", "get", "stream", "returned"}
       /\ pc = "returned" => (net.get = 1 \/ (~Last.ok /\ KindOf(Last) \in DownloadFailures))
       /\ (pc = "returned" /\ Last.ok) => (Last.value /\ fs[LocalSegs].data = Body)

\* C25 witness: no local file, the remote exists, the file was downloaded
C25_Witness ==
  /\ LookedUp /\ ~localRes.info.exists /\ s3Res.info.exists
  /\ LookupCode(fs0, LocalSegs) = "ENOENT"
  /\ pc = "returned" /\ Last.ok /\ Last.value /\ fs[LocalSegs].data = Body

\* the text after the last separator of s (all of s when it has none)
AfterLastSeparator(s) ==
  LET slashes == {j \in 1..Len(s) : s[j] = SL}
  IN IF slashes = {} THEN s
     ELSE SubSeq(s, (CHOOSE j \in slashes : \A k \in slashes : k <= j) + 1, Len(s))

\* C26: without preserveStructure, buildLocalPath fails with EmptyFilename for
\* every key that ends in a separator, and gives for every other key the root
\* joined with the text after the key's last separator; syncToRoot never gets
\* to syncFile with a key that ends in a separator.
C26_BaseNameOrEmptyFilename ==
  (args.entry = "syncToRoot" /\ ~args.preserve /\ parseS3Uri(args.uri).ok) =>
    LET key == KeyOf(args.uri)
        built == generateLocalPath(args.path, key, FALSE)
    IN /\ key[Len(key)] = SL =>
            /\ ~built.ok /\ KindOf(built) = "EmptyFilename"
            /\ pc \in {"start", "validate", "probeWrite", "probeUnlink", "locate", "returned"}
            /\ pc = "returned" => ~Last.ok
       /\ key[Len(key)] # SL =>
            /\ built.ok
            /\ built.path = Join(args.path, AfterLastSeparator(key))

\* s contains two dots in a row
HasDotDot(s) == \E i \in 1..(Len(s) - 1) : s[i] = DOT /\ s[i + 1] = DOT

\* C27: with preserveStructure, buildLocalPath joins the root with the
\* sanitized key; for every key the sanitized key contains no '..' and does
\* not start with a separator, and the joined path resolves to the root or
\* below it; syncFile is called with that path.
C27_SanitizedKeyStaysInside ==
  (args.entry = "syncToRoot" /\ args.preserve /\ parseS3Uri(args.uri).ok) =>
    LET key == KeyOf(args.uri)
        clean == SanitizeKey(key)
        built == generateLocalPath(args.path, key, TRUE)
    IN /\ ~HasDotDot(clean)
       /\ clean = <<>> \/ clean[1] # SL
       /\ built.ok
       /\ built.path = Resolve(Join(args.path, clean))
       /\ Under(AbsSegs(built.path), AbsSegs(args.path))
       /\ pc \in {"parse", "lookups", "decide", "mkdir", "get", "stream"}
            => localPath = built.path

\* C27 witness: the key '../a' became 'a', and syncFile works on <root>/a
C27_Witness ==
  /\ args.entry = "syncToRoot" /\ args.preserve
  /\ args.uri = S3Prefix \o <<"b", SL, DOT, DOT, SL, "a">>
  /\ SanitizeKey(KeyOf(args.uri)) = <<"a">>
  /\ pc = "lookups" /\ localPath = PathRA

\* C28: once syncToRoot has validated its root and computed the local path,
\* it goes on to syncFile, with that very path, if the resolved path is the
\* resolved root or lies under it, and fails with PathEscapesRoot otherwise.
C28_ContainmentExact ==
  (/\ args.entry = "syncToRoot" /\ probe.unlink = "ok"
   /\ parseS3Uri(args.uri).ok /\ ComputedPath.ok
   /\ pc \notin {"probeUnlink", "locate"}) =>
    IF Under(AbsSegs(ComputedPath.path), AbsSegs(args.path))
    THEN /\ localPath = ComputedPath.path
         /\ ~(pc = "returned" /\ ~Last.ok /\ KindOf(Last) = "PathEscapesRoot")
    ELSE /\ pc = "returned" /\ ~Last.ok /\ KindOf(Last) = "PathEscapesRoot"
         /\ localPath = <<>>

\* the envelope of the latest reply of json_query
Envelope == reply[1].text
EnvelopeFields == {"data", "count", "query", "status", "error"}

\* C29: json_query never raises: every request gets an envelope with the fields
\* data, count, query, status and error; a request whose steps all succeed
\* gets status 'success', error null and the number of results as count; a
\* request that fails (read, parse or query) gets status 'error', data null,
\* count 0 and the failure message as error.
C29_EnvelopeAlways ==
  reply # <<>> =>
    /\ ~reply[1].raised
    /\ DOMAIN Envelope = EnvelopeFields
    /\ Envelope.query = Str(reply[1].query)
    /\ IF reply[1].failure = "none"
       THEN /\ Envelope.status = Str("success")
            /\ Envelope.error = Null
            /\ Envelope.data.t = "array"
            /\ Envelope.count = Num(Envelope.data.n)
       ELSE /\ Envelope.status = Str("error")
            /\ Envelope.data = Null
            /\ Envelope.count = Num(0)
            /\ Envelope.error.t = "string" /\ Envelope.error.s # ""

\* C30: the number of results in data, and the count reported, of a successful
\* json_query reply is at most the configured max-results value.
C30_MaxResultsBounds ==
  (/\ reply # <<>>
   /\ "data" \in DOMAIN Envelope
   /\ Envelope.data.t = "array") =>
    /\ Envelope.data.n <= args.maxResults
    /\ Envelope.count.n <= args.maxResults

\* C31: a server launched with the argument list the manifest builds does not
\* exit at argument parsing, and a non-empty s3_uri of the configuration is
\* the locator of the startup sync.
C31_ManifestArgsAccepted ==
  \A v \in ConfigVerbose, u \in ConfigS3Uri, m \in ConfigMaxResults :
    (args.argv = ManifestArgs(v, u, m) /\ bootPc # "argv") =>
      /\ ~(bootPc = "exited" /\ exitCode = 1)
      /\ u # <<>> => args.uri = u

\* the failures of syncToRoot between the validation of the root and syncFile
LocateFailures == {"MalformedLocator", "EmptyFilename", "PathEscapesRoot"}

\* the steps of syncFile and of the download
InSyncFile == pc \in {"parse", "lookups", "decide", "mkdir", "get", "stream"}

\* the file system holds what it held before the run, the modification time of
\* the root directory apart (the probe was created and removed in it)
OnlyProbeTraces ==
  LET f == InitFs(args.fsConf)
  IN /\ DOMAIN fs = DOMAIN f
     /\ \A q \in DOMAIN f : q # AbsSegs(args.path) => fs[q] = f[q]
     /\ fs[AbsSegs(args.path)].kind = "dir"

\* C32: in syncToRoot the root is validated before the locator is parsed, and
\* the locator parsed, the path built and contained before syncFile is
\* called: a call that fails with a malformed locator, EmptyFilename or
\* PathEscapesRoot has validated its root, has issued no remote request and
\* has left the file system as it was (the probe written and removed); a call
\* whose validation failed fails with the validation's error; and syncFile
\* runs only after every earlier step succeeded.
C32_StepOrder ==
  args.entry = "syncToRoot" =>
    /\ (pc = "returned" /\ ~Last.ok /\ KindOf(Last) \in LocateFailures) =>
         /\ probe.write = "ok" /\ probe.unlink = "ok"
         /\ net.head = 0 /\ net.get = 0
         /\ s3Res = Idle /\ localRes = Idle /\ dl = NoDownload
         /\ fsMut \subseteq {TestFile(args.path)}
         /\ OnlyProbeTraces
         /\ localPath = <<>>
    /\ (pc = "returned" /\ probe.unlink # "ok") =>
         /\ ~Last.ok /\ KindOf(Last) \notin LocateFailures
         /\ net.head = 0 /\ net.get = 0
    /\ pc \in {"validate", "probeWrite", "probeUnlink", "locate"} =>
         /\ net.head = 0 /\ net.get = 0 /\ localPath = <<>>
    /\ InSyncFile =>
         /\ StepsSucceed
         /\ localPath = ComputedPath.path

\* C32 witness: syncToRoot('s3://b', '/r') validated the root, then failed
\* with MalformedLocator
C32_Witness ==
  /\ args.entry = "syncToRoot" /\ args.uri = S3Prefix \o <<"b">> /\ args.path = RootR
  /\ pc = "returned" /\ ~Last.ok /\ KindOf(Last) = "MalformedLocator"
  /\ probe.unlink = "ok" /\ TestFile(args.path) \in fsMut

\* the error went through the catch block of downloadFromS3
HasDownloadPrefix(e) == \E i \in 1..Len(e.msg) : e.msg[i] = DownloadPrefix

\* the entry at localPath is what it was when the current syncFile call started
LocalFileUntouched ==
  /\ LocalSegs \in DOMAIN fs <=> LocalSegs \in DOMAIN fs0
  /\ LocalSegs \in DOMAIN fs => fs[LocalSegs] = fs0[LocalSegs]

\* the parent directory of localPath exists
ParentDirExists ==
  LET dir == AbsSegs(Dirname(localPath))
  IN LookupCode(fs, dir) = "ok" /\ fs[dir].kind = "dir"

\* C33: in the download the parent directory of localPath exists before the
\* body request is issued, and the local file is opened for writing only
\* after the body request gave a body; when the creation of the directory
\* fails no body request is issued, and when the body request fails or gives
\* no body the local file is neither created nor truncated.
C33_DownloadStepOrder ==
  /\ net.get > 0 => ParentDirExists
  /\ pc \in {"mkdir", "get"} => (dl = NoDownload /\ LocalFileUntouched)
  /\ pc = "mkdir" => net.get = 0
  /\ dl # NoDownload => (net.get = 1 /\ ParentDirExists)
  /\ (net.head > 0 /\ ~LocalFileUntouched) =>
       /\ dl # NoDownload
       /\ LocalSegs \in DOMAIN fs => dl.ws \notin {"none", "opening"}
  /\ (pc = "returned" /\ ~Last.ok /\ HasDownloadPrefix(Last)) =>
       /\ dl = NoDownload /\ LocalFileUntouched
       /\ KindOf(Last) \notin {"TransportError", "NoBody"} => net.get = 0
       /\ KindOf(Last) \in {"TransportError", "NoBody"} => net.get = 1

\* C33 witness: syncFile('s3://b/a', '/w/d/a') created /w/d, the body request
\* gave no body, and there is no file /w/d/a
C33_Witness ==
  /\ args.entry = "syncFile" /\ args.path = PathWDA
  /\ pc = "returned" /\ ~Last.ok /\ KindOf(Last) = "NoBody"
  /\ <<<<"w">>, <<"d">>>> \in DOMAIN fs
  /\ AbsSegs(PathWDA) \notin DOMAIN fs
  /\ net.get = 1

\* the errors the two streams of a download emit: of the body stream, of a
\* write, of the open of the write stream
StreamErrors == {"StreamError", "WriteError", "EACCES", "ENOTDIR", "EISDIR", "ENOENT"}

\* a cleanup unlink is pending and will fail
CleanupWillFail == dl.unlinks > 0 /\ Alive /\ UnlinkCode(fs, LocalSegs) # "ok"

\* the call has failed on a stream error: the error surfaced is that error
StreamErrorSurfaced ==
  (pc = "returned" /\ (dl.errored \/ dl.ws = "failed")) =>
    /\ ~Last.ok
    /\ KindOf(Last) \in StreamErrors
    /\ KindOf(Last) = "StreamError" => dl.errored
    /\ KindOf(Last) # "StreamError" => dl.ws = "failed"

\* C34: a cleanup deletion that fails changes nothing: the result of the call
\* stays the stream error that triggered the cleanup, no further result or
\* failure is produced, the process does not exit.
C34_CleanupFailureSwallowed ==
  /\ []StreamErrorSurfaced
  /\ [][(CleanupWillFail /\ dl'.unlinks = dl.unlinks - 1) =>
          /\ UNCHANGED <<results, pc, bootPc, exitCode, fs>>
          /\ StreamErrorSurfaced']_vars

\* C34 witness: the body stream failed before the file was opened, where no
\* file was, the cleanup unlink found nothing, and syncFile has failed with
\* the stream error
C34_Witness ==
  /\ args.entry = "syncFile" /\ args.fsConf = "B" /\ args.path = PathRA
  /\ dl.ws = "opening" /\ dl.errored /\ dl.unlinks = 0
  /\ LocalSegs \notin DOMAIN fs
  /\ pc = "returned" /\ Last.msg = <<SyncPrefix, "StreamError">>

\* a regular file was at localPath when the current sync call started
HadLocalFile == LocalSegs \in DOMAIN fs0 /\ fs0[LocalSegs].kind = "file"

\* C35: after a sync call (syncFile, or the startup sync) that failed, a file
\* that was at the destination before the call is still there with the
\* content it had.
C35_FailedSyncKeepsLocalFile ==
  (/\ args.entry \in {"syncFile", "run"}
   /\ pc = "returned" /\ ~Last.ok
   /\ HadLocalFile) =>
    /\ LocalSegs \in DOMAIN fs
    /\ fs[LocalSegs].kind = "file"
    /\ fs[LocalSegs].data = fs0[LocalSegs].data

\* validateRootDirectory of the first call has just returned, with or without
\* an error
ValidationReturned ==
  \/ pc = "locate" /\ results = <<>>
  \/ pc = "returned" /\ Len(results) = 1 /\ (probe = NoProbe \/ probe.unlink # "ok")

\* C36: when validateRoot has returned, successfully or not, it has left no
\* probe file in the root and every entry that was in the root before the
\* call, one with the probe's name included, is there as it was.
C36_ValidationLeavesRootAsItWas ==
  (args.entry = "syncToRoot" /\ ValidationReturned) =>
    LET f == InitFs(args.fsConf)
        root == AbsSegs(args.path)
    IN /\ TestFile(args.path) \notin DOMAIN f => TestFile(args.path) \notin DOMAIN fs
       /\ \A q \in DOMAIN f :
            (Under(q, root) /\ q # root) => (q \in DOMAIN fs /\ fs[q] = f[q])

\* how many times the error carries the sync-failure prefix
SyncPrefixCount(e) == Cardinality({i \in 1..Len(e.msg) : e.msg[i] = SyncPrefix})

\* the call failed in its download: both lookups had completed and the remote
\* object exists
DownloadStageFailed == pc = "returned" /\ ~Last.ok /\ LookedUp /\ s3Res.info.exists

\* C37: the error of a failed syncToRoot or syncFile call carries the
\* sync-failure prefix exactly once, whichever step failed, and every failure
\* of the download stage carries the download-failure wording.
C37_PrefixOnceDownloadWordingUniform ==
  (args.entry \in {"syncToRoot", "syncFile"} /\ pc = "returned" /\ ~Last.ok) =>
    /\ SyncPrefixCount(Last) = 1
    /\ Last.msg[1] = SyncPrefix
    /\ DownloadStageFailed => HasDownloadPrefix(Last)

\* C38: the localPath of an outcome of syncToRoot lies strictly inside the
\* root, and its filename is the non-empty name of a regular file that is at
\* localPath when the call returns.
C38_OutcomeNamesFileInsideRoot ==
  (args.entry = "syncToRoot" /\ pc = "returned" /\ Last.ok) =>
    LET segs == AbsSegs(Last.localPath)
        root == AbsSegs(args.path)
    IN /\ Under(segs, root) /\ segs # root
       /\ Last.filename # <<>>
       /\ Last.filename = segs[Len(segs)]
       /\ LookupCode(fs, segs) = "ok"
       /\ fs[segs].kind = "file"

\* the steps that are left to a download whose write stream was created: the
\* open, a chunk, a flush, the end, the 'finish' and the events of the body
StreamStep ==
  OpenDone \/ Data \/ Flush \/ End \/ Finish \/ BodyError \/ BodyClose

\* C39: every syncFile call settles, and settles once: while the call waits
\* for the download, a step that leads to its result is still to come (the
\* call never stays pending with nothing left that could settle it), a call
\* that returned left one result, and true is returned only when the write
\* stream has finished.
C39_SyncFileSettlesOnce ==
  /\ pc = "stream" => ENABLED StreamStep
  /\ pc = "returned" => Len(results) \in 1..MaxCalls
  /\ (pc = "returned" /\ Last.ok /\ Last.value) =>
       (dl.ws = "closed" /\ dl.ended /\ dl.written = NumChunks)

\* the key has no parent-directory segment and no leading separator
PlainKey(key) ==
  /\ Len(key) > 0 /\ key[1] # SL
  /\ \A i \in 1..Len(SplitSlash(key)) : SplitSlash(key)[i] # <<DOT, DOT>>

\* C40: with preserveStructure, a key without parent-directory segment and
\* without leading separator maps to the root joined with the key as it is,
\* and no other such key maps to the same path.
C40_PlainKeysKeptAndDistinct ==
  (/\ args.entry = "syncToRoot" /\ args.preserve
   /\ parseS3Uri(args.uri).ok /\ PlainKey(KeyOf(args.uri))
   /\ pc \notin {"start", "validate", "probeWrite", "probeUnlink", "locate"}
   /\ probe.unlink = "ok") =>
    LET key == KeyOf(args.uri)
        built == generateLocalPath(args.path, key, TRUE)
    IN /\ built.ok
       /\ built.path = Resolve(Join(args.path, key))
       /\ \A other \in Keys :
            (PlainKey(other) /\ other # key) =>
              generateLocalPath(args.path, other, TRUE).path # built.path
====
